---- MODULE Spec2Model ----
(***************************************************************************)
(* Verification model of the AgriPay frontends: the milestone status       *)
(* helpers and the geometry converters of src/src/protected.jsx, the       *)
(* polygon formatters, bounding box, vegetation indices, token cache and   *)
(* settle-all aggregation of the Sentinel service, the index and health    *)
(* functions and wrappers of the TiTiler service, the AgroMonitoring       *)
(* wrappers, the ThingsBoard telemetry functions, the WebODM processing    *)
(* workflow with its status poll and project lookup, the date list of the  *)
(* Sentinel catalog, ProtectedRoute, and the approval dialog of the farm   *)
(* reports page.  Each component has its own specification; the variables  *)
(* of the others stay at rest in it.                                       *)
(*                                                                         *)
(* JavaScript values are encoded as follows.  Strings are TLA+ strings.    *)
(* null, undefined and function values are the reserved strings below,     *)
(* which are not status strings of the application.  An array is a         *)
(* sequence, an object a record, a call's outcome a record that says       *)
(* whether the call returned a value or threw.                             *)
(***************************************************************************)
EXTENDS Integers, Sequences, FiniteSets, TLC

VARIABLES
    status,           \* milestone id -> status string held by the database row
    lastStep,         \* the last status transition taken: role, milestone, from, to
    statusIn,         \* raw status handed to the status helpers
    statusCalls,      \* helper name -> result of that helper applied to statusIn
    leafletCoords,    \* point list handed to the points-to-polygon converters
    converted,        \* converter name -> outcome of that converter on leafletCoords
    geoJsonIn,        \* argument handed to geoJSONToLeaflet, with where it came from
    leafletOut,       \* outcome of geoJSONToLeaflet on geoJsonIn
    bboxOut,          \* outcome of coordsToBBox on leafletCoords
    bandValues,       \* band values handed to computeVegetationIndices
    pixelSamples,     \* samples handed to the evalscript's evaluatePixel
    ndviIn,           \* NDVI value handed to the health-label functions
    indexCalls,       \* function name -> result of the vegetation-index functions
    requests,         \* position in dataNames -> progress of that Sentinel request
    batch,            \* what getAllSentinelDataForFarm returned, once it has
    deviceQuery,      \* answer of the iot_devices query
    telemetryReq,     \* device index -> progress of its telemetry request
    iotPc,            \* where getFarmIoTData stands
    iotResult,        \* what getFarmIoTData returned, once it has
    env,              \* which configuration values are set
    wrapperCall,      \* the remote-call wrapper invoked and its outcome
    fetchLog,         \* network requests issued so far
    sensorTelemetry,  \* capture dates stored by the virtual sensor, oldest first
    publishCalls,     \* call id -> progress of a publishSatelliteTelemetry call
    invocations,      \* edge-function invocations made so far
    clock,            \* current time, in minutes
    tokenRow,         \* cached row of sentinel_tokens, if any
    authService,      \* whether sentinel-auth answers with a token
    tokenCall,        \* progress and outcome of getAccessToken
    odmTask,          \* status and progress of the WebODM task
    poll,             \* progress and outcome of pollTaskStatus
    workflow,         \* progress, emitted steps and outcome of processImages
    auth,             \* session held by the auth client, if any
    route,            \* props, state and effect progress of a mounted ProtectedRoute
    sceneFeatures,    \* features of the catalog search response
    datesOut,         \* dates array built by getAvailableDates, once it has
    reportsRole,      \* role of the user viewing the reports page
    reportStatus,     \* report id -> status held by the page
    confirmOpen,      \* report id -> whether its confirm dialog is open
    verifyInFlight,   \* report id -> verify requests awaiting their response
    verifyIssued,     \* verify requests issued so far, with the status shown then
    odmProjects,      \* projects held by the WebODM server
    projectCalls      \* call id -> progress of a getOrCreateFarmProject call

milestoneVars == <<status, lastStep>>
statusFnVars == <<statusIn, statusCalls>>
geometryVars == <<leafletCoords, converted, geoJsonIn, leafletOut, bboxOut>>
vegetationVars == <<bandValues, pixelSamples, ndviIn, indexCalls>>
sentinelVars == <<requests, batch>>
iotVars == <<deviceQuery, telemetryReq, iotPc, iotResult>>
configVars == <<env, wrapperCall, fetchLog>>
publishVars == <<sensorTelemetry, publishCalls, invocations>>
tokenVars == <<clock, tokenRow, authService, tokenCall>>
webOdmVars == <<odmTask, poll, workflow>>
routeVars == <<auth, route>>
datesVars == <<sceneFeatures, datesOut>>
reportsVars == <<reportsRole, reportStatus, confirmOpen, verifyInFlight, verifyIssued>>
projectVars == <<odmProjects, projectCalls>>

vars == <<milestoneVars,
          statusFnVars,
          geometryVars,
          vegetationVars,
          sentinelVars,
          iotVars,
          configVars,
          publishVars,
          tokenVars,
          webOdmVars,
          routeVars,
          datesVars,
          reportsVars,
          projectVars>>

\* The variables of all components but one.
notMilestone ==
    <<statusFnVars, geometryVars, vegetationVars, sentinelVars,
      iotVars, configVars, publishVars, tokenVars,
      webOdmVars, routeVars, datesVars, reportsVars,
      projectVars>>
notStatusFn ==
    <<milestoneVars, geometryVars, vegetationVars, sentinelVars,
      iotVars, configVars, publishVars, tokenVars,
      webOdmVars, routeVars, datesVars, reportsVars,
      projectVars>>
notGeometry ==
    <<milestoneVars, statusFnVars, vegetationVars, sentinelVars,
      iotVars, configVars, publishVars, tokenVars,
      webOdmVars, routeVars, datesVars, reportsVars,
      projectVars>>
notVegetation ==
    <<milestoneVars, statusFnVars, geometryVars, sentinelVars,
      iotVars, configVars, publishVars, tokenVars,
      webOdmVars, routeVars, datesVars, reportsVars,
      projectVars>>
notSentinel ==
    <<milestoneVars, statusFnVars, geometryVars, vegetationVars,
      iotVars, configVars, publishVars, tokenVars,
      webOdmVars, routeVars, datesVars, reportsVars,
      projectVars>>
notIoT ==
    <<milestoneVars, statusFnVars, geometryVars, vegetationVars,
      sentinelVars, configVars, publishVars, tokenVars,
      webOdmVars, routeVars, datesVars, reportsVars,
      projectVars>>
notConfig ==
    <<milestoneVars, statusFnVars, geometryVars, vegetationVars,
      sentinelVars, iotVars, publishVars, tokenVars,
      webOdmVars, routeVars, datesVars, reportsVars,
      projectVars>>
notPublish ==
    <<milestoneVars, statusFnVars, geometryVars, vegetationVars,
      sentinelVars, iotVars, configVars, tokenVars,
      webOdmVars, routeVars, datesVars, reportsVars,
      projectVars>>
notToken ==
    <<milestoneVars, statusFnVars, geometryVars, vegetationVars,
      sentinelVars, iotVars, configVars, publishVars,
      webOdmVars, routeVars, datesVars, reportsVars,
      projectVars>>
notWebOdm ==
    <<milestoneVars, statusFnVars, geometryVars, vegetationVars,
      sentinelVars, iotVars, configVars, publishVars,
      tokenVars, routeVars, datesVars, reportsVars,
      projectVars>>
notRoute ==
    <<milestoneVars, statusFnVars, geometryVars, vegetationVars,
      sentinelVars, iotVars, configVars, publishVars,
      tokenVars, webOdmVars, datesVars, reportsVars,
      projectVars>>
notDates ==
    <<milestoneVars, statusFnVars, geometryVars, vegetationVars,
      sentinelVars, iotVars, configVars, publishVars,
      tokenVars, webOdmVars, routeVars, reportsVars,
      projectVars>>
notReports ==
    <<milestoneVars, statusFnVars, geometryVars, vegetationVars,
      sentinelVars, iotVars, configVars, publishVars,
      tokenVars, webOdmVars, routeVars, datesVars,
      projectVars>>
notProject ==
    <<milestoneVars, statusFnVars, geometryVars, vegetationVars,
      sentinelVars, iotVars, configVars, publishVars,
      tokenVars, webOdmVars, routeVars, datesVars,
      reportsVars>>

(***************************************************************************)
(* Bounds of the model.                                                    *)
(***************************************************************************)
NumMilestones == 3
MaxPoints == 4
MaxBand == 2
MaxDevices == 3
MaxCalls == 2
MaxClock == 3
MaxExpiry == 10
MaxProgress == 2
MaxScenes == 3
MaxDay == 2
NumReports == 2
MaxRequests == 2
MaxProjectCalls == 3

(***************************************************************************)
(* JavaScript values and call outcomes.                                    *)
(***************************************************************************)
JsNull == "<null>"
JsUndefined == "<undefined>"
JsFunction(name) == "<function " \o name \o ">"

\* ToBoolean on the encoded values: null, undefined and "" are falsy.
Truthy(v) == v \notin {JsNull, JsUndefined, ""}

Return(v) == [threw |-> FALSE, value |-> v]
Throw(e) == [threw |-> TRUE, error |-> e]

\* Properties every object literal inherits from Object.prototype.
ObjectPrototype ==
    ("constructor" :> JsFunction("Object")) @@
    [p \in {"toString", "valueOf", "hasOwnProperty"} |-> JsFunction(p)]

(***************************************************************************)
(* Milestone status helpers.                                               *)
(***************************************************************************)
MILESTONE_STATUSES ==
    [NOT_STARTED |-> "not_started",
     IN_PROGRESS |-> "in_progress",
     PENDING_VERIFICATION |-> "pending_verification",
     VERIFIED |-> "verified",
     REJECTED |-> "rejected",
     SKIPPED |-> "skipped",
     LEGACY_NOT_STARTED |-> "Not Started",
     LEGACY_IN_PROGRESS |-> "In Progress",
     LEGACY_COMPLETED |-> "Completed"]

\* Own properties of the LEGACY_STATUS_MAP object literal.
LEGACY_STATUS_MAP ==
    ("Not Started" :> MILESTONE_STATUSES.NOT_STARTED) @@
    ("In Progress" :> MILESTONE_STATUSES.IN_PROGRESS) @@
    ("Completed" :> MILESTONE_STATUSES.PENDING_VERIFICATION)

\* LEGACY_STATUS_MAP[key]: an own property, else a property inherited from
\* Object.prototype, else undefined.
LegacyStatusLookup(key) ==
    IF key \in DOMAIN LEGACY_STATUS_MAP THEN LEGACY_STATUS_MAP[key]
    ELSE IF key \in DOMAIN ObjectPrototype THEN ObjectPrototype[key]
    ELSE JsUndefined

normalizeStatus(s) ==
    IF ~Truthy(s) THEN MILESTONE_STATUSES.NOT_STARTED
    ELSE IF Truthy(LegacyStatusLookup(s)) THEN LegacyStatusLookup(s)
    ELSE s

isTerminalStatus(s) ==
    normalizeStatus(s) \in {MILESTONE_STATUSES.VERIFIED,
                            MILESTONE_STATUSES.REJECTED,
                            MILESTONE_STATUSES.SKIPPED}

canFarmerUpdate(s) ==
    normalizeStatus(s) \in {MILESTONE_STATUSES.NOT_STARTED,
                            MILESTONE_STATUSES.IN_PROGRESS}

canAdminVerify(s) ==
    normalizeStatus(s) = MILESTONE_STATUSES.PENDING_VERIFICATION

isVerified(s) ==
    normalizeStatus(s) = MILESTONE_STATUSES.VERIFIED

\* isCompletedStatus comparing the stored value without normalizing it.
isCompletedStatus_Raw(s) ==
    s \in {MILESTONE_STATUSES.PENDING_VERIFICATION,
           MILESTONE_STATUSES.VERIFIED,
           MILESTONE_STATUSES.REJECTED}

isCompletedStatus(s) ==
    normalizeStatus(s) \in {MILESTONE_STATUSES.PENDING_VERIFICATION,
                            MILESTONE_STATUSES.VERIFIED,
                            MILESTONE_STATUSES.REJECTED}

Option(v, l) == [value |-> v, label |-> l]

FarmerChain ==
    <<Option(MILESTONE_STATUSES.NOT_STARTED, "Not Started"),
      Option(MILESTONE_STATUSES.IN_PROGRESS, "In Progress"),
      Option(MILESTONE_STATUSES.PENDING_VERIFICATION, "Mark as Complete")>>

\* getFarmerStatusOptions whose terminal guard tests verified alone.
getFarmerStatusOptions_VerifiedOnlyGuard(currentStatus) ==
    LET normalized == normalizeStatus(currentStatus) IN
    IF isVerified(normalized) THEN <<>>
    ELSE IF normalized = MILESTONE_STATUSES.PENDING_VERIFICATION THEN <<>>
    ELSE FarmerChain

\* getFarmerStatusOptions without its pending-verification guard.
getFarmerStatusOptions_NoPendingGuard(currentStatus) ==
    IF isTerminalStatus(normalizeStatus(currentStatus)) THEN <<>> ELSE FarmerChain

\* getFarmerStatusOptions whose "Mark as Complete" option carries verified.
getFarmerStatusOptions_CompleteIsVerified(currentStatus) ==
    LET normalized == normalizeStatus(currentStatus) IN
    IF isTerminalStatus(normalized) THEN <<>>
    ELSE IF normalized = MILESTONE_STATUSES.PENDING_VERIFICATION THEN <<>>
    ELSE <<Option(MILESTONE_STATUSES.NOT_STARTED, "Not Started"),
           Option(MILESTONE_STATUSES.IN_PROGRESS, "In Progress"),
           Option(MILESTONE_STATUSES.VERIFIED, "Mark as Complete")>>

getFarmerStatusOptions(currentStatus) ==
    LET normalized == normalizeStatus(currentStatus) IN
    IF isTerminalStatus(normalized) THEN <<>>
    ELSE IF normalized = MILESTONE_STATUSES.PENDING_VERIFICATION THEN <<>>
    ELSE FarmerChain

AdminReview ==
    <<Option(MILESTONE_STATUSES.VERIFIED, "Approve & Verify"),
      Option(MILESTONE_STATUSES.REJECTED, "Reject")>>

AdminSkip == <<Option(MILESTONE_STATUSES.SKIPPED, "Skip Milestone")>>

\* getAdminStatusOptions without its verified guard.
getAdminStatusOptions_NoVerifiedGuard(currentStatus) ==
    IF normalizeStatus(currentStatus) = MILESTONE_STATUSES.PENDING_VERIFICATION
    THEN AdminReview
    ELSE AdminSkip

\* getAdminStatusOptions offering nothing from any terminal status.
getAdminStatusOptions_TerminalGuard(currentStatus) ==
    LET normalized == normalizeStatus(currentStatus) IN
    IF isTerminalStatus(normalized) THEN <<>>
    ELSE IF normalized = MILESTONE_STATUSES.PENDING_VERIFICATION THEN AdminReview
    ELSE AdminSkip

getAdminStatusOptions(currentStatus) ==
    LET normalized == normalizeStatus(currentStatus) IN
    IF normalized = MILESTONE_STATUSES.VERIFIED THEN <<>>
    ELSE IF normalized = MILESTONE_STATUSES.PENDING_VERIFICATION
    THEN AdminReview
    ELSE AdminSkip

\* The status values an option list offers.
OptionValues(options) == {options[i].value : i \in DOMAIN options}

(***************************************************************************)
(* Values the variables of a component hold while another one is checked.  *)
(***************************************************************************)
Milestones == 1..NumMilestones
NoStep == [role |-> "none", milestone |-> 0, from |-> "", to |-> ""]

MilestoneIdle ==
    /\ status = [m \in Milestones |-> MILESTONE_STATUSES.NOT_STARTED]
    /\ lastStep = NoStep

StatusFnIdle ==
    /\ statusIn = ""
    /\ statusCalls = <<>>

NullGeoJSON == [isNull |-> TRUE]
NoGeoJsonIn == [origin |-> "none", arg |-> NullGeoJSON]

\* A call that has not been made or has not returned.
NotCalled == [called |-> FALSE]

GeometryIdle ==
    /\ leafletCoords = <<>>
    /\ converted = <<>>
    /\ geoJsonIn = NoGeoJsonIn
    /\ leafletOut = Return(<<>>)
    /\ bboxOut = NotCalled

\* A number that is null.
JsNullNumber == [isNull |-> TRUE]
\* An array where null may stand instead.
JsArray(items) == [isNull |-> FALSE, items |-> items]

VegetationIdle ==
    /\ bandValues = JsArray(<<>>)
    /\ pixelSamples = [B04 |-> 0, B08 |-> 0, B11 |-> 0, dataMask |-> 1]
    /\ ndviIn = JsNullNumber
    /\ indexCalls = <<>>

SentinelIdle ==
    /\ requests = <<>>
    /\ batch = NotCalled

IoTIdle ==
    /\ deviceQuery = [error |-> FALSE, data |-> JsArray(<<>>)]
    /\ telemetryReq = <<>>
    /\ iotPc = "idle"
    /\ iotResult = NotCalled

ConfigIdle ==
    /\ env = [apiKey |-> TRUE, titilerUrl |-> TRUE]
    /\ wrapperCall = NotCalled
    /\ fetchLog = <<>>

PublishIdle ==
    /\ sensorTelemetry = <<>>
    /\ publishCalls = <<>>
    /\ invocations = <<>>

NoTokenRow == [present |-> FALSE]

TokenIdle ==
    /\ clock = 0
    /\ tokenRow = NoTokenRow
    /\ authService = TRUE
    /\ tokenCall = NotCalled

WebOdmIdle ==
    /\ odmTask = [status |-> 10, progress |-> 0]
    /\ poll = NotCalled
    /\ workflow = NotCalled

RouteIdle ==
    /\ auth = JsNull
    /\ route = NotCalled

DatesIdle ==
    /\ sceneFeatures = <<>>
    /\ datesOut = NotCalled

ReportsIdle ==
    /\ reportsRole = "farmer"
    /\ reportStatus = <<>>
    /\ confirmOpen = <<>>
    /\ verifyInFlight = <<>>
    /\ verifyIssued = <<>>

ProjectIdle ==
    /\ odmProjects = <<>>
    /\ projectCalls = <<>>

\* Every component but one holds its idle values.
IdleExceptMilestone ==
    /\ StatusFnIdle
    /\ GeometryIdle
    /\ VegetationIdle
    /\ SentinelIdle
    /\ IoTIdle
    /\ ConfigIdle
    /\ PublishIdle
    /\ TokenIdle
    /\ WebOdmIdle
    /\ RouteIdle
    /\ DatesIdle
    /\ ReportsIdle
    /\ ProjectIdle

IdleExceptStatusFn ==
    /\ MilestoneIdle
    /\ GeometryIdle
    /\ VegetationIdle
    /\ SentinelIdle
    /\ IoTIdle
    /\ ConfigIdle
    /\ PublishIdle
    /\ TokenIdle
    /\ WebOdmIdle
    /\ RouteIdle
    /\ DatesIdle
    /\ ReportsIdle
    /\ ProjectIdle

IdleExceptGeometry ==
    /\ MilestoneIdle
    /\ StatusFnIdle
    /\ VegetationIdle
    /\ SentinelIdle
    /\ IoTIdle
    /\ ConfigIdle
    /\ PublishIdle
    /\ TokenIdle
    /\ WebOdmIdle
    /\ RouteIdle
    /\ DatesIdle
    /\ ReportsIdle
    /\ ProjectIdle

IdleExceptVegetation ==
    /\ MilestoneIdle
    /\ StatusFnIdle
    /\ GeometryIdle
    /\ SentinelIdle
    /\ IoTIdle
    /\ ConfigIdle
    /\ PublishIdle
    /\ TokenIdle
    /\ WebOdmIdle
    /\ RouteIdle
    /\ DatesIdle
    /\ ReportsIdle
    /\ ProjectIdle

IdleExceptSentinel ==
    /\ MilestoneIdle
    /\ StatusFnIdle
    /\ GeometryIdle
    /\ VegetationIdle
    /\ IoTIdle
    /\ ConfigIdle
    /\ PublishIdle
    /\ TokenIdle
    /\ WebOdmIdle
    /\ RouteIdle
    /\ DatesIdle
    /\ ReportsIdle
    /\ ProjectIdle

IdleExceptIoT ==
    /\ MilestoneIdle
    /\ StatusFnIdle
    /\ GeometryIdle
    /\ VegetationIdle
    /\ SentinelIdle
    /\ ConfigIdle
    /\ PublishIdle
    /\ TokenIdle
    /\ WebOdmIdle
    /\ RouteIdle
    /\ DatesIdle
    /\ ReportsIdle
    /\ ProjectIdle

IdleExceptConfig ==
    /\ MilestoneIdle
    /\ StatusFnIdle
    /\ GeometryIdle
    /\ VegetationIdle
    /\ SentinelIdle
    /\ IoTIdle
    /\ PublishIdle
    /\ TokenIdle
    /\ WebOdmIdle
    /\ RouteIdle
    /\ DatesIdle
    /\ ReportsIdle
    /\ ProjectIdle

IdleExceptPublish ==
    /\ MilestoneIdle
    /\ StatusFnIdle
    /\ GeometryIdle
    /\ VegetationIdle
    /\ SentinelIdle
    /\ IoTIdle
    /\ ConfigIdle
    /\ TokenIdle
    /\ WebOdmIdle
    /\ RouteIdle
    /\ DatesIdle
    /\ ReportsIdle
    /\ ProjectIdle

IdleExceptToken ==
    /\ MilestoneIdle
    /\ StatusFnIdle
    /\ GeometryIdle
    /\ VegetationIdle
    /\ SentinelIdle
    /\ IoTIdle
    /\ ConfigIdle
    /\ PublishIdle
    /\ WebOdmIdle
    /\ RouteIdle
    /\ DatesIdle
    /\ ReportsIdle
    /\ ProjectIdle

IdleExceptWebOdm ==
    /\ MilestoneIdle
    /\ StatusFnIdle
    /\ GeometryIdle
    /\ VegetationIdle
    /\ SentinelIdle
    /\ IoTIdle
    /\ ConfigIdle
    /\ PublishIdle
    /\ TokenIdle
    /\ RouteIdle
    /\ DatesIdle
    /\ ReportsIdle
    /\ ProjectIdle

IdleExceptRoute ==
    /\ MilestoneIdle
    /\ StatusFnIdle
    /\ GeometryIdle
    /\ VegetationIdle
    /\ SentinelIdle
    /\ IoTIdle
    /\ ConfigIdle
    /\ PublishIdle
    /\ TokenIdle
    /\ WebOdmIdle
    /\ DatesIdle
    /\ ReportsIdle
    /\ ProjectIdle

IdleExceptDates ==
    /\ MilestoneIdle
    /\ StatusFnIdle
    /\ GeometryIdle
    /\ VegetationIdle
    /\ SentinelIdle
    /\ IoTIdle
    /\ ConfigIdle
    /\ PublishIdle
    /\ TokenIdle
    /\ WebOdmIdle
    /\ RouteIdle
    /\ ReportsIdle
    /\ ProjectIdle

IdleExceptReports ==
    /\ MilestoneIdle
    /\ StatusFnIdle
    /\ GeometryIdle
    /\ VegetationIdle
    /\ SentinelIdle
    /\ IoTIdle
    /\ ConfigIdle
    /\ PublishIdle
    /\ TokenIdle
    /\ WebOdmIdle
    /\ RouteIdle
    /\ DatesIdle
    /\ ProjectIdle

IdleExceptProject ==
    /\ MilestoneIdle
    /\ StatusFnIdle
    /\ GeometryIdle
    /\ VegetationIdle
    /\ SentinelIdle
    /\ IoTIdle
    /\ ConfigIdle
    /\ PublishIdle
    /\ TokenIdle
    /\ WebOdmIdle
    /\ RouteIdle
    /\ DatesIdle
    /\ ReportsIdle
(***************************************************************************)
(* The milestone state machine: a farmer or a reviewer picks one of the    *)
(* transitions the option list of their role offers for a milestone.       *)
(***************************************************************************)
\* Statuses a milestone row starts with: a new milestone is not_started, and
\* rows written before the status enum hold a legacy value.
InitialStatuses ==
    {MILESTONE_STATUSES.NOT_STARTED,
     MILESTONE_STATUSES.LEGACY_NOT_STARTED,
     MILESTONE_STATUSES.LEGACY_IN_PROGRESS,
     MILESTONE_STATUSES.LEGACY_COMPLETED}

MilestoneInit ==
    /\ status \in [Milestones -> InitialStatuses]
    /\ lastStep = NoStep
    /\ IdleExceptMilestone

FarmerStep(m, v) ==
    /\ v \in OptionValues(getFarmerStatusOptions(status[m]))
    /\ status' = [status EXCEPT ![m] = v]
    /\ lastStep' = [role |-> "farmer", milestone |-> m, from |-> status[m], to |-> v]
    /\ UNCHANGED notMilestone

AdminStep(m, v) ==
    /\ v \in OptionValues(getAdminStatusOptions(status[m]))
    /\ status' = [status EXCEPT ![m] = v]
    /\ lastStep' = [role |-> "admin", milestone |-> m, from |-> status[m], to |-> v]
    /\ UNCHANGED notMilestone

CanonicalStatuses ==
    {MILESTONE_STATUSES.NOT_STARTED, MILESTONE_STATUSES.IN_PROGRESS,
     MILESTONE_STATUSES.PENDING_VERIFICATION, MILESTONE_STATUSES.VERIFIED,
     MILESTONE_STATUSES.REJECTED, MILESTONE_STATUSES.SKIPPED}

MilestoneNext ==
    \E m \in Milestones, v \in CanonicalStatuses :
        \/ FarmerStep(m, v)
        \/ AdminStep(m, v)

MilestoneSpec == MilestoneInit /\ [][MilestoneNext]_vars

(***************************************************************************)
(* The status helpers applied to one raw status value.                     *)
(***************************************************************************)
\* Raw values of a status column: the enum values, the legacy spellings,
\* empty and null, and strings that are neither (some of them names that
\* object literals inherit).
RawStatuses ==
    CanonicalStatuses \cup DOMAIN LEGACY_STATUS_MAP \cup
    {"", JsNull, JsUndefined, "archived", "completed", "COMPLETED",
     "constructor", "toString"}

\* The boolean helpers applied to one value.
StatusPredicates(s) ==
    [isTerminalStatus |-> isTerminalStatus(s),
     isCompletedStatus |-> isCompletedStatus(s),
     canFarmerUpdate |-> canFarmerUpdate(s),
     canAdminVerify |-> canAdminVerify(s),
     isVerified |-> isVerified(s)]

Called(name) == name \in DOMAIN statusCalls
Record(name, result) ==
    /\ statusCalls' = (name :> result) @@ statusCalls
    /\ UNCHANGED <<statusIn, notStatusFn>>

StatusFnInit ==
    /\ statusIn \in RawStatuses
    /\ statusCalls = <<>>
    /\ IdleExceptStatusFn

CallNormalizeStatus ==
    Record("normalizeStatus", normalizeStatus(statusIn))

\* normalizeStatus applied to its own result.
CallNormalizeStatusAgain ==
    /\ Called("normalizeStatus")
    /\ Record("normalizeStatus.normalizeStatus",
              normalizeStatus(statusCalls["normalizeStatus"]))

CallStatusPredicates ==
    Record("predicates", StatusPredicates(statusIn))

\* The boolean helpers applied to the normalized value.
CallStatusPredicatesNormalized ==
    /\ Called("normalizeStatus")
    /\ Record("predicates.normalizeStatus",
              StatusPredicates(statusCalls["normalizeStatus"]))

CallGetFarmerStatusOptions ==
    Record("getFarmerStatusOptions", getFarmerStatusOptions(statusIn))

CallGetAdminStatusOptions ==
    Record("getAdminStatusOptions", getAdminStatusOptions(statusIn))

StatusFnNext ==
    \/ CallNormalizeStatus
    \/ CallNormalizeStatusAgain
    \/ CallStatusPredicates
    \/ CallStatusPredicatesNormalized
    \/ CallGetFarmerStatusOptions
    \/ CallGetAdminStatusOptions

StatusFnSpec == StatusFnInit /\ [][StatusFnNext]_vars

(***************************************************************************)
(* Geometry converters.  A Leaflet point is [lat, lng]; a GeoJSON           *)
(* coordinate is the pair <<lng, lat>>.  Latitudes and longitudes are drawn *)
(* from disjoint ranges, so a coordinate in the wrong order is visible.     *)
(***************************************************************************)
Lats == {10, 11}
Lngs == {20, 21}
Points == [lat : Lats, lng : Lngs]
PointLists == UNION {[1..n -> Points] : n \in 0..MaxPoints}

\* coords.map(p => [p.lng, p.lat])
ToLngLat(coords) == [i \in 1..Len(coords) |-> <<coords[i].lng, coords[i].lat>>]

\* leafletToGeoJSON that does not close the ring.
leafletToGeoJSON_NoClose(coords) ==
    IF Len(coords) < 3
    THEN Throw("A polygon requires at least 3 points")
    ELSE Return([type |-> "Polygon", coordinates |-> <<ToLngLat(coords)>>])

\* A null or undefined argument fails the same guard as a list of fewer than
\* 3 points; the point lists of the model are arrays.
leafletToGeoJSON(coords) ==
    IF Len(coords) < 3
    THEN Throw("A polygon requires at least 3 points")
    ELSE LET mapped == ToLngLat(coords)
             firstPoint == mapped[1]
             lastPoint == mapped[Len(mapped)]
             closed == IF firstPoint[1] # lastPoint[1] \/ firstPoint[2] # lastPoint[2]
                       THEN Append(mapped, firstPoint)
                       ELSE mapped
         IN Return([type |-> "Polygon", coordinates |-> <<closed>>])

\* coords[0].lng of an empty list reads a property of undefined.
coordsToGeoJSON(coords) ==
    IF Len(coords) = 0
    THEN Throw("TypeError: cannot read properties of undefined (reading 'lng')")
    ELSE Return([type |-> "Polygon",
                 coordinates |->
                     <<Append(ToLngLat(coords), <<coords[1].lng, coords[1].lat>>)>>])

\* Math.min and Math.max of a spread list: Infinity and -Infinity when the
\* list is empty.
Infinity == [infinity |-> 1]
NegInfinity == [infinity |-> -1]
MathMin(S) == IF S = {} THEN Infinity ELSE CHOOSE m \in S : \A x \in S : m <= x
MathMax(S) == IF S = {} THEN NegInfinity ELSE CHOOSE m \in S : \A x \in S : m >= x

coordsToBBox(coords) ==
    LET lngs == {coords[i].lng : i \in 1..Len(coords)}
        lats == {coords[i].lat : i \in 1..Len(coords)}
    IN Return(<<MathMin(lngs), MathMin(lats), MathMax(lngs), MathMax(lats)>>)

formatCoordsToGeoJSON(coords) ==
    LET geoJsonCoords == ToLngLat(coords)
        n == Len(geoJsonCoords)
        closed == IF n > 0 /\ (geoJsonCoords[1][1] # geoJsonCoords[n][1]
                               \/ geoJsonCoords[1][2] # geoJsonCoords[n][2])
                  THEN Append(geoJsonCoords, geoJsonCoords[1])
                  ELSE geoJsonCoords
    IN Return([type |-> "Feature",
               properties |-> <<>>,
               geometry |-> [type |-> "Polygon", coordinates |-> <<closed>>]])

\* coords.map(([lng, lat]) => ({ lat, lng }))
ToLatLng(ring) == [i \in 1..Len(ring) |-> [lat |-> ring[i][2], lng |-> ring[i][1]]]

HasCoordinates(g) == g # NullGeoJSON /\ "coordinates" \in DOMAIN g

\* geoJSONToLeaflet that reads each coordinate as [lat, lng].
geoJSONToLeaflet_NoSwap(g) ==
    LET Map(ring) == [i \in 1..Len(ring) |-> [lat |-> ring[i][1], lng |-> ring[i][2]]] IN
    IF ~HasCoordinates(g) THEN Return(<<>>)
    ELSE IF "type" \in DOMAIN g /\ g.type = "MultiPolygon"
    THEN IF Len(g.coordinates) = 0 \/ Len(g.coordinates[1]) = 0
         THEN Throw("TypeError")
         ELSE Return(Map(g.coordinates[1][1]))
    ELSE IF Len(g.coordinates) = 0
         THEN Throw("TypeError")
         ELSE Return(Map(g.coordinates[1]))

geoJSONToLeaflet(g) ==
    IF ~HasCoordinates(g) THEN Return(<<>>)
    ELSE IF "type" \in DOMAIN g /\ g.type = "MultiPolygon"
    THEN IF Len(g.coordinates) = 0
         THEN Throw("TypeError: cannot read properties of undefined (reading '0')")
         ELSE IF Len(g.coordinates[1]) = 0
         THEN Throw("TypeError: cannot read properties of undefined (reading 'map')")
         ELSE Return(ToLatLng(g.coordinates[1][1]))
    ELSE IF Len(g.coordinates) = 0
         THEN Throw("TypeError: cannot read properties of undefined (reading 'map')")
         ELSE Return(ToLatLng(g.coordinates[1]))

Reverse(s) == [i \in 1..Len(s) |-> s[Len(s) + 1 - i]]

\* Arguments geoJSONToLeaflet is called with: null, objects that lack
\* coordinates or a first ring, the polygon leafletToGeoJSON returned, and
\* polygons and multi-polygons built around that ring.
GeoJSONInputs ==
    {[origin |-> "null", arg |-> NullGeoJSON],
     [origin |-> "no coordinates", arg |-> [type |-> "Polygon"]],
     [origin |-> "empty coordinates", arg |-> [type |-> "Polygon", coordinates |-> <<>>]],
     [origin |-> "empty MultiPolygon",
      arg |-> [type |-> "MultiPolygon", coordinates |-> <<>>]],
     [origin |-> "MultiPolygon without ring",
      arg |-> [type |-> "MultiPolygon", coordinates |-> << <<>> >>]]}
    \cup
    (IF "leafletToGeoJSON" \in DOMAIN converted /\ ~converted["leafletToGeoJSON"].threw
     THEN LET polygon == converted["leafletToGeoJSON"].value
              ring == polygon.coordinates[1] IN
          {[origin |-> "leafletToGeoJSON", arg |-> polygon],
           [origin |-> "Polygon with hole",
            arg |-> [type |-> "Polygon", coordinates |-> <<ring, Reverse(ring)>>]],
           [origin |-> "MultiPolygon",
            arg |-> [type |-> "MultiPolygon",
                     coordinates |-> << <<ring, Reverse(ring)>>, <<Reverse(ring)>> >>]]}
     ELSE {})

GeometryInit ==
    /\ leafletCoords \in PointLists
    /\ converted = <<>>
    /\ geoJsonIn = NoGeoJsonIn
    /\ leafletOut = Return(<<>>)
    /\ bboxOut = NotCalled
    /\ IdleExceptGeometry

Convert(name, outcome) ==
    /\ converted' = (name :> outcome) @@ converted
    /\ UNCHANGED <<leafletCoords, geoJsonIn, leafletOut, bboxOut, notGeometry>>

CallLeafletToGeoJSON == Convert("leafletToGeoJSON", leafletToGeoJSON(leafletCoords))

CallCoordsToGeoJSON == Convert("coordsToGeoJSON", coordsToGeoJSON(leafletCoords))

CallFormatCoordsToGeoJSON ==
    Convert("formatCoordsToGeoJSON", formatCoordsToGeoJSON(leafletCoords))

CallCoordsToBBox ==
    /\ bboxOut' = [called |-> TRUE] @@ coordsToBBox(leafletCoords)
    /\ UNCHANGED <<leafletCoords, converted, geoJsonIn, leafletOut, notGeometry>>

CallGeoJSONToLeaflet(in) ==
    /\ geoJsonIn' = in
    /\ leafletOut' = geoJSONToLeaflet(in.arg)
    /\ UNCHANGED <<leafletCoords, converted, bboxOut, notGeometry>>

GeometryNext ==
    \/ CallLeafletToGeoJSON
    \/ CallCoordsToGeoJSON
    \/ CallFormatCoordsToGeoJSON
    \/ CallCoordsToBBox
    \/ \E in \in GeoJSONInputs : CallGeoJSONToLeaflet(in)

GeometrySpec == GeometryInit /\ [][GeometryNext]_vars

(***************************************************************************)
(* Vegetation indices and NDVI health labels.  A number the code computes  *)
(* by a division is kept as the pair of its numerator and denominator; a   *)
(* null where a number or an object is expected is JsNullNumber.           *)
(***************************************************************************)
\* The MicaSense no-data value.
NoData == 65535

\* Band values of a MicaSense sample.
BandLevels == (0..MaxBand) \cup {NoData}

\* The values argument of computeVegetationIndices: ten bands of which
\* b3, b5, b7 and b10 vary, shorter arrays, and null.
FullSamples ==
    {JsArray([i \in 1..10 |-> CASE i = 3 -> g [] i = 5 -> r [] i = 7 -> e
                        [] i = 10 -> n [] OTHER -> 1]) :
        g \in BandLevels, r \in BandLevels, e \in BandLevels, n \in BandLevels}
ShortSamples == {JsArray([i \in 1..k |-> 1]) : k \in 0..9}
BandSamples == FullSamples \cup ShortSamples \cup {JsNullNumber}

Ratio(n, d) == [isNull |-> FALSE, num |-> n, den |-> d]

\* computeVegetationIndices without the red-edge no-data test.
computeVegetationIndices_NoRedEdgeCheck(values) ==
    IF values.isNull \/ Len(values.items) < 10 THEN Return(JsNullNumber)
    ELSE LET b3 == values.items[3]
             b5 == values.items[5]
             b7 == values.items[7]
             b10 == values.items[10]
             ndviDenom == b10 + b5
             ndreDenom == b10 + b7
             gndviDenom == b10 + b3
         IN IF b5 = NoData \/ b10 = NoData \/ b3 = NoData
            THEN Return(JsNullNumber)
            ELSE Return([isNull |-> FALSE,
                         ndvi |-> IF ndviDenom # 0 THEN Ratio(b10 - b5, ndviDenom)
                                  ELSE JsNullNumber,
                         ndre |-> IF ndreDenom # 0 THEN Ratio(b10 - b7, ndreDenom)
                                  ELSE JsNullNumber,
                         gndvi |-> IF gndviDenom # 0 THEN Ratio(b10 - b3, gndviDenom)
                                   ELSE JsNullNumber])

computeVegetationIndices(values) ==
    IF values.isNull \/ Len(values.items) < 10 THEN Return(JsNullNumber)
    ELSE LET b3 == values.items[3]
             b5 == values.items[5]
             b7 == values.items[7]
             b10 == values.items[10]
             ndviDenom == b10 + b5
             ndreDenom == b10 + b7
             gndviDenom == b10 + b3
         IN IF b5 = NoData \/ b10 = NoData \/ b3 = NoData \/ b7 = NoData
            THEN Return(JsNullNumber)
            ELSE Return([isNull |-> FALSE,
                         ndvi |-> IF ndviDenom # 0 THEN Ratio(b10 - b5, ndviDenom)
                                  ELSE JsNullNumber,
                         ndre |-> IF ndreDenom # 0 THEN Ratio(b10 - b7, ndreDenom)
                                  ELSE JsNullNumber,
                         gndvi |-> IF gndviDenom # 0 THEN Ratio(b10 - b3, gndviDenom)
                                   ELSE JsNullNumber])

\* Samples of the evalscript are reflectances counted in units of 0.0001, so
\* the 0.0001 added to a denominator is one unit and L = 0.5 is 5000 units.
Epsilon == 1
SaviL == 5000

PixelSamples ==
    [B04 : 0..MaxBand, B08 : 0..MaxBand, B11 : 0..MaxBand, dataMask : {0, 1}]

\* evaluatePixel dividing by NIR + Red alone.
evaluatePixel_NoEpsilon(samples) ==
    Return([ndvi |-> <<Ratio(samples.B08 - samples.B04,
                             samples.B08 + samples.B04)>>,
            savi |-> <<Ratio(3 * (samples.B08 - samples.B04),
                             2 * (samples.B08 + samples.B04 + SaviL))>>,
            moisture |-> <<Ratio(samples.B08 - samples.B11,
                                 samples.B08 + samples.B11 + Epsilon)>>,
            dataMask |-> <<samples.dataMask>>])

\* savi is the quotient times 1 + L = 3/2.
evaluatePixel(samples) ==
    Return([ndvi |-> <<Ratio(samples.B08 - samples.B04,
                             samples.B08 + samples.B04 + Epsilon)>>,
            savi |-> <<Ratio(3 * (samples.B08 - samples.B04),
                             2 * (samples.B08 + samples.B04 + SaviL))>>,
            moisture |-> <<Ratio(samples.B08 - samples.B11,
                                 samples.B08 + samples.B11 + Epsilon)>>,
            dataMask |-> <<samples.dataMask>>])

\* NDVI arguments of the health labels, in hundredths: -1.00 .. 1.00, and
\* null.
NdviHundredths == -100..100
NdviValues ==
    {[isNull |-> FALSE, hundredths |-> h] : h \in NdviHundredths}
        \cup {JsNullNumber}

\* getNdviHealthStatus of titiler.js.
titilerGetNdviHealthStatus(ndvi) ==
    IF ndvi.isNull THEN Return([label |-> "No Data", color |-> "#888"])
    ELSE IF ndvi.hundredths < 0
        THEN Return([label |-> "Water/Shadow", color |-> "#2c3e50"])
    ELSE IF ndvi.hundredths < 10
        THEN Return([label |-> "Bare Soil", color |-> "#a0522d"])
    ELSE IF ndvi.hundredths < 20
        THEN Return([label |-> "Sparse", color |-> "#daa520"])
    ELSE IF ndvi.hundredths < 40
        THEN Return([label |-> "Moderate", color |-> "#9acd32"])
    ELSE IF ndvi.hundredths < 60
        THEN Return([label |-> "Healthy", color |-> "#228b22"])
    ELSE Return([label |-> "Very Healthy", color |-> "#006400"])

\* getNdviHealthStatus of sentinelHub.js.
sentinelGetNdviHealthStatus(ndvi) ==
    IF ndvi.isNull THEN Return("Unknown")
    ELSE IF ndvi.hundredths < -10 THEN Return("Water/Shadow")
    ELSE IF ndvi.hundredths < 10 THEN Return("Bare Soil")
    ELSE IF ndvi.hundredths < 20 THEN Return("Sparse")
    ELSE IF ndvi.hundredths < 40 THEN Return("Moderate")
    ELSE IF ndvi.hundredths < 60 THEN Return("Healthy")
    ELSE Return("Very Healthy")

\* One argument is drawn; the other two keep their idle values.
VegetationInit ==
    /\ \/ /\ bandValues \in BandSamples
          /\ pixelSamples = [B04 |-> 0, B08 |-> 0, B11 |-> 0, dataMask |-> 1]
          /\ ndviIn = JsNullNumber
       \/ /\ bandValues = JsArray(<<>>)
          /\ pixelSamples \in PixelSamples
          /\ ndviIn = JsNullNumber
       \/ /\ bandValues = JsArray(<<>>)
          /\ pixelSamples = [B04 |-> 0, B08 |-> 0, B11 |-> 0, dataMask |-> 1]
          /\ ndviIn \in NdviValues
    /\ indexCalls = <<>>
    /\ IdleExceptVegetation

IndexCalled(name) == name \in DOMAIN indexCalls
Compute(name, outcome) ==
    /\ indexCalls' = (name :> outcome) @@ indexCalls
    /\ UNCHANGED <<bandValues, pixelSamples, ndviIn, notVegetation>>

CallComputeVegetationIndices ==
    Compute("computeVegetationIndices", computeVegetationIndices(bandValues))

CallEvaluatePixel == Compute("evaluatePixel", evaluatePixel(pixelSamples))

CallTitilerGetNdviHealthStatus ==
    Compute("titiler.getNdviHealthStatus", titilerGetNdviHealthStatus(ndviIn))

CallSentinelGetNdviHealthStatus ==
    Compute("sentinel.getNdviHealthStatus", sentinelGetNdviHealthStatus(ndviIn))

VegetationNext ==
    \/ CallComputeVegetationIndices
    \/ CallEvaluatePixel
    \/ CallTitilerGetNdviHealthStatus
    \/ CallSentinelGetNdviHealthStatus

VegetationSpec == VegetationInit /\ [][VegetationNext]_vars

(***************************************************************************)
(* getAllSentinelDataForFarm: six requests started together, each of which *)
(* first obtains the access token and then fetches, and the aggregation    *)
(* of their settled results.                                               *)
(***************************************************************************)
\* The requests in the order of the Promise.allSettled array.
dataNames == <<"trueColor", "ndvi", "savi", "moisture", "lai", "scenes">>

\* What each request says when the response is not ok.
FailureMessages ==
    <<"Failed to get true color image", "Failed to get NDVI image",
      "Failed to get SAVI image", "Failed to get moisture image",
      "Failed to get LAI image", "Failed to search Sentinel scenes">>

Fulfilled(v) == [status |-> "fulfilled", value |-> v]
Rejected(message) == [status |-> "rejected", reason |-> [message |-> message]]
Settled(r) == r.status \in {"fulfilled", "rejected"}

\* The value of a fulfilled request: the object URL of the image, or the
\* features of the search (data.features || []).
RequestValue(i) ==
    IF dataNames[i] = "scenes" THEN JsArray(<<>>)
    ELSE [isNull |-> FALSE, url |-> "blob:" \o dataNames[i]]

\* The errors array: one entry per rejected result, in order.
RECURSIVE RejectedErrors(_, _)
RejectedErrors(results, i) ==
    IF i > Len(results) THEN <<>>
    ELSE IF results[i].status = "fulfilled" THEN RejectedErrors(results, i + 1)
    ELSE <<[api |-> dataNames[i], error |-> results[i].reason.message]>>
             \o RejectedErrors(results, i + 1)

\* The aggregation with Promise.all in place of Promise.allSettled: the
\* first rejection rejects the call.
getAllSentinelDataForFarm_All(results) ==
    IF \E i \in 1..Len(results) : results[i].status = "rejected"
    THEN LET first == CHOOSE i \in 1..Len(results) :
                 /\ results[i].status = "rejected"
                 /\ \A j \in 1..(i - 1) : results[j].status # "rejected"
         IN Throw(results[first].reason.message)
    ELSE Return([data |-> [n \in {dataNames[i] : i \in 1..Len(results)} |->
                              LET i == CHOOSE k \in 1..Len(results) : dataNames[k] = n
                              IN results[i].value],
                 errors |-> <<>>])

\* results.forEach over the settled results.
getAllSentinelDataForFarm(results) ==
    Return([data |-> [n \in {dataNames[i] : i \in 1..Len(results)} |->
                         LET i == CHOOSE k \in 1..Len(results) : dataNames[k] = n
                         IN IF results[i].status = "fulfilled"
                            THEN results[i].value
                            ELSE JsNullNumber],
            errors |-> RejectedErrors(results, 1)])

SentinelInit ==
    /\ requests = [i \in 1..Len(dataNames) |-> [status |-> "token"]]
    /\ batch = NotCalled
    /\ IdleExceptSentinel

\* await getAccessToken() of request i: it returns a token or throws.
RequestToken(i, ok) ==
    /\ requests[i].status = "token"
    /\ requests' = [requests EXCEPT ![i] =
           IF ok THEN [status |-> "fetch"]
           ELSE Rejected("Failed to authenticate with Sentinel Hub")]
    /\ UNCHANGED <<batch, notSentinel>>

\* await fetch(...) of request i: a response that is ok, a response that is
\* not, or a rejected fetch.
RequestFetch(i, response) ==
    /\ requests[i].status = "fetch"
    /\ requests' = [requests EXCEPT ![i] =
           CASE response = "ok" -> Fulfilled(RequestValue(i))
             [] response = "not ok" -> Rejected(FailureMessages[i])
             [] response = "network error" -> Rejected("Failed to fetch")]
    /\ UNCHANGED <<batch, notSentinel>>

\* Promise.allSettled resolves once every request has settled.
Aggregate ==
    /\ batch = NotCalled
    /\ \A i \in 1..Len(requests) : Settled(requests[i])
    /\ batch' = [called |-> TRUE] @@ getAllSentinelDataForFarm(requests)
    /\ UNCHANGED <<requests, notSentinel>>

SentinelNext ==
    \/ \E i \in 1..Len(dataNames), ok \in BOOLEAN : RequestToken(i, ok)
    \/ \E i \in 1..Len(dataNames), response \in {"ok", "not ok", "network error"} :
           RequestFetch(i, response)
    \/ Aggregate

SentinelSpec == SentinelInit /\ [][SentinelNext]_vars

(***************************************************************************)
(* getFarmIoTData: the device list of a farm, then one telemetry request   *)
(* per device, awaited together.                                           *)
(***************************************************************************)
DeviceIds == 1..MaxDevices

\* Rows the iot_devices query can answer with: lists of distinct devices.
DeviceLists ==
    {s \in UNION {[1..n -> DeviceIds] : n \in 0..MaxDevices} :
        \A i, j \in 1..Len(s) : i # j => s[i] # s[j]}

\* The answer { data, error } of the query.
DeviceQueries ==
    {[error |-> e, data |-> d] :
        e \in BOOLEAN,
        d \in {JsArray(s) : s \in DeviceLists} \cup {JsNullNumber}}

\* getFarmIoTDevices on the answer of the query.
getFarmIoTDevices(query) ==
    IF query.error THEN <<>>
    ELSE IF query.data.isNull THEN <<>>
    ELSE [i \in 1..Len(query.data.items) |->
             [id |-> query.data.items[i], device_id |-> query.data.items[i]]]

\* The telemetry object getLatestTelemetry returns for a device.
TelemetryOf(device_id) == [isNull |-> FALSE, of |-> device_id]

\* The callback of devices.map without its try/catch.
deviceWithTelemetry_NoCatch(device, outcome) ==
    IF outcome.threw THEN outcome
    ELSE Return([id |-> device.id, device_id |-> device.device_id,
                 telemetry |-> outcome.value])

\* The callback of devices.map, given how getLatestTelemetry ended.
deviceWithTelemetry(device, outcome) ==
    IF outcome.threw
    THEN Return([id |-> device.id, device_id |-> device.device_id,
                 telemetry |-> JsNullNumber, error |-> TRUE])
    ELSE Return([id |-> device.id, device_id |-> device.device_id,
                 telemetry |-> outcome.value])

IoTInit ==
    /\ deviceQuery \in DeviceQueries
    /\ telemetryReq = <<>>
    /\ iotPc = "devices"
    /\ iotResult = NotCalled
    /\ IdleExceptIoT

\* await getFarmIoTDevices(farmId), then devices.map starts every callback.
AwaitDevices ==
    /\ iotPc = "devices"
    /\ telemetryReq' =
           LET devices == getFarmIoTDevices(deviceQuery) IN
           [i \in 1..Len(devices) |-> [status |-> "pending", device |-> devices[i]]]
    /\ iotPc' = "telemetry"
    /\ UNCHANGED <<deviceQuery, iotResult, notIoT>>

\* getLatestTelemetry of device i returns or throws, and the callback ends.
LatestTelemetry(i, ok) ==
    /\ iotPc = "telemetry"
    /\ telemetryReq[i].status = "pending"
    /\ LET device == telemetryReq[i].device
           outcome == IF ok THEN Return(TelemetryOf(device.device_id))
                      ELSE Throw("FunctionsHttpError")
       IN telemetryReq' = [telemetryReq EXCEPT ![i] =
              [status |-> "settled", device |-> device, failed |-> ~ok,
               entry |-> deviceWithTelemetry(device, outcome)]]
    /\ UNCHANGED <<deviceQuery, iotPc, iotResult, notIoT>>

\* Promise.all: rejects as soon as a callback has rejected, resolves with the
\* entries in device order once all have returned.
AwaitAll ==
    /\ iotPc = "telemetry"
    /\ \/ /\ \E i \in 1..Len(telemetryReq) :
                 /\ telemetryReq[i].status = "settled"
                 /\ telemetryReq[i].entry.threw
                 /\ iotResult' = [called |-> TRUE] @@ telemetryReq[i].entry
       \/ /\ \A i \in 1..Len(telemetryReq) :
                 /\ telemetryReq[i].status = "settled"
                 /\ ~telemetryReq[i].entry.threw
          /\ iotResult' = [called |-> TRUE] @@
                 Return([i \in 1..Len(telemetryReq) |-> telemetryReq[i].entry.value])
    /\ iotPc' = "done"
    /\ UNCHANGED <<deviceQuery, telemetryReq, notIoT>>

IoTNext ==
    \/ AwaitDevices
    \/ \E i \in 1..Len(telemetryReq), ok \in BOOLEAN : LatestTelemetry(i, ok)
    \/ AwaitAll

IoTSpec == IoTInit /\ [][IoTNext]_vars

(***************************************************************************)
(* Remote-call wrappers of agroMonitoring.js and titiler.js under a        *)
(* configuration in which the API key or the TiTiler URL may be missing.   *)
(***************************************************************************)
\* Wrappers that take a polygon id and put API_KEY into the URL.
AgroPolygonWrappers ==
    {"getWeatherForPolygon", "getSoilDataForPolygon",
     "getNdviHistoryForPolygon", "searchSatelliteImages"}
AgroWrappers == {"registerPolygonWithAgro"} \cup AgroPolygonWrappers

\* Wrappers that fetch from TITILER_URL without a test.
TiTilerFetchWrappers == {"getBounds", "getInfo", "getStatistics", "getPointValue"}
TiTilerWrappers == TiTilerFetchWrappers \cup {"checkHealth"}

Wrappers == AgroWrappers \cup TiTilerWrappers

\* What a wrapper throws when the response is not ok.
NotOkMessage(name) ==
    CASE name = "registerPolygonWithAgro" ->
             "Failed to register polygon with AgroMonitoring."
      [] name = "getWeatherForPolygon" -> "Failed to fetch weather data"
      [] name = "getSoilDataForPolygon" -> "Failed to fetch soil data"
      [] name = "getNdviHistoryForPolygon" -> "Failed to fetch NDVI history"
      [] name = "searchSatelliteImages" -> "Failed to search for satellite images"
      [] name = "getBounds" -> "Failed to get bounds"
      [] name = "getInfo" -> "Failed to get info"
      [] name = "getStatistics" -> "Failed to get statistics"
      [] name = "getPointValue" -> "Failed to get point value"

\* The wrapper goes on to its fetch.
Proceed == [proceed |-> TRUE]

\* The part of a wrapper before its fetch: what it returns or throws there,
\* or Proceed.
BeforeFetch(name, e, hasPolyId) ==
    IF name = "registerPolygonWithAgro"
        THEN IF ~e.apiKey THEN Throw("AgroMonitoring API key is not configured.")
             ELSE Proceed
    ELSE IF name \in AgroPolygonWrappers
        THEN IF ~hasPolyId THEN Throw("Polygon ID is required.") ELSE Proceed
    ELSE IF name = "checkHealth"
        THEN IF ~e.titilerUrl THEN Return(FALSE) ELSE Proceed
    ELSE Proceed

\* The part of a wrapper after its fetch.
AfterFetch(name, response) ==
    IF name = "checkHealth" THEN Return(response = "ok")
    ELSE CASE response = "ok" -> Return("data")
           [] response = "not ok" -> Throw(NotOkMessage(name))
           [] response = "network error" -> Throw("Failed to fetch")

ConfigInit ==
    /\ env \in [apiKey : BOOLEAN, titilerUrl : BOOLEAN]
    /\ wrapperCall = NotCalled
    /\ fetchLog = <<>>
    /\ IdleExceptConfig

\* A wrapper is called and runs up to its fetch, if it gets there.
CallWrapper(name, hasPolyId) ==
    /\ wrapperCall = NotCalled
    /\ LET before == BeforeFetch(name, env, hasPolyId) IN
       IF before = Proceed
       THEN /\ wrapperCall' = [called |-> TRUE, name |-> name, settled |-> FALSE]
            /\ fetchLog' = Append(fetchLog, name)
       ELSE /\ wrapperCall' = [called |-> TRUE, name |-> name, settled |-> TRUE,
                               outcome |-> before]
            /\ UNCHANGED fetchLog
    /\ UNCHANGED <<env, notConfig>>

\* The fetch ends and the wrapper returns or throws.
Respond(response) ==
    /\ wrapperCall.called
    /\ ~wrapperCall.settled
    /\ wrapperCall' = [called |-> TRUE, name |-> wrapperCall.name, settled |-> TRUE,
                       outcome |-> AfterFetch(wrapperCall.name, response)]
    /\ UNCHANGED <<env, fetchLog, notConfig>>

ConfigNext ==
    \/ \E name \in Wrappers, hasPolyId \in BOOLEAN : CallWrapper(name, hasPolyId)
    \/ \E response \in {"ok", "not ok", "network error"} : Respond(response)

ConfigSpec == ConfigInit /\ [][ConfigNext]_vars

(***************************************************************************)
(* publishSatelliteTelemetry: calls that may overlap, the telemetry of the *)
(* virtual sensor they read and write, and the thingsboard-publish         *)
(* invocations they make.                                                  *)
(***************************************************************************)
PublishCallIds == 1..MaxCalls

CaptureDates == {"2024-05-01", "2024-05-06"}

\* A value that may be undefined.
Undefined == [defined |-> FALSE]
Defined(v) == [defined |-> TRUE, value |-> v]

\* dateInfo.cloudCover: a percentage at or above the limit of 15, or nothing.
CloudCovers == {Defined(15), Defined(16), Undefined}

\* The dateInfo argument: absent, or { date, cloudCover }.
NoDateInfo == [present |-> FALSE]
DateInfos ==
    {NoDateInfo} \cup
    {[present |-> TRUE, date |-> d, cloudCover |-> c] :
        d \in CaptureDates, c \in CloudCovers}

\* stats.acquisitionDate: an ISO date-time, or nothing.
AcquisitionDates ==
    {Undefined} \cup {Defined([date |-> d, time |-> "10:30:00Z"]) : d \in CaptureDates}

\* dateInfo.cloudCover > 15: false for undefined.
CloudCoverAbove15(cloudCover) == cloudCover.defined /\ cloudCover.value > 15

\* stats?.acquisitionDate?.split("T")[0] || dateInfo.date
captureDateOf(acquisitionDate, dateInfo) ==
    IF acquisitionDate.defined THEN acquisitionDate.value.date ELSE dateInfo.date

\* latestTelemetry?.capture_date of the virtual sensor.
lastCaptureDateOf(telemetry) ==
    IF Len(telemetry) = 0 THEN Undefined
    ELSE Defined(telemetry[Len(telemetry)].capture_date)

\* isAlreadyPublished, given whether getLatestTelemetry answered.
isAlreadyPublished(captureDate, telemetry, answered) ==
    IF answered THEN lastCaptureDateOf(telemetry) = Defined(captureDate)
    ELSE FALSE

PublishInit ==
    /\ sensorTelemetry = <<>>
    /\ publishCalls = [p \in PublishCallIds |-> [pc |-> "idle"]]
    /\ invocations = <<>>
    /\ IdleExceptPublish

\* publishSatelliteTelemetry(farmId, stats, dateInfo) up to its first await.
StartPublish(p, acquisitionDate, dateInfo) ==
    /\ publishCalls[p].pc = "idle"
    /\ publishCalls' = [publishCalls EXCEPT ![p] =
           IF ~dateInfo.present \/ CloudCoverAbove15(dateInfo.cloudCover)
           THEN [pc |-> "done", dateInfo |-> dateInfo, checked |-> FALSE,
                 result |-> FALSE]
           ELSE [pc |-> "check", dateInfo |-> dateInfo, checked |-> FALSE,
                 captureDate |-> captureDateOf(acquisitionDate, dateInfo)]]
    /\ UNCHANGED <<sensorTelemetry, invocations, notPublish>>

\* await isAlreadyPublished(captureDate): the latest telemetry is read, or the
\* read fails.
CheckPublished(p, answered) ==
    /\ publishCalls[p].pc = "check"
    /\ LET c == publishCalls[p] IN
       publishCalls' = [publishCalls EXCEPT ![p] =
           IF isAlreadyPublished(c.captureDate, sensorTelemetry, answered)
           THEN [pc |-> "done", dateInfo |-> c.dateInfo, checked |-> TRUE,
                 captureDate |-> c.captureDate, result |-> FALSE]
           ELSE [pc |-> "publish", dateInfo |-> c.dateInfo, checked |-> TRUE,
                 captureDate |-> c.captureDate]]
    /\ UNCHANGED <<sensorTelemetry, invocations, notPublish>>

\* supabase.functions.invoke("thingsboard-publish", ...): the telemetry
\* reaches the sensor, or the invocation reports an error.
InvokePublish(p, ok) ==
    /\ publishCalls[p].pc = "publish"
    /\ LET c == publishCalls[p] IN
       /\ invocations' = Append(invocations,
              [call |-> p, capture_date |-> c.captureDate, ok |-> ok])
       /\ sensorTelemetry' =
              IF ok THEN Append(sensorTelemetry,
                                [capture_date |-> c.captureDate,
                                 cloud_cover |-> c.dateInfo.cloudCover,
                                 data_source |-> "satellite"])
              ELSE sensorTelemetry
       /\ publishCalls' = [publishCalls EXCEPT ![p] =
              [pc |-> "done", dateInfo |-> c.dateInfo, checked |-> TRUE,
               captureDate |-> c.captureDate, result |-> ok]]
    /\ UNCHANGED notPublish

PublishNext ==
    \/ \E p \in PublishCallIds, a \in AcquisitionDates, d \in DateInfos :
           StartPublish(p, a, d)
    \/ \E p \in PublishCallIds, answered \in BOOLEAN : CheckPublished(p, answered)
    \/ \E p \in PublishCallIds, ok \in BOOLEAN : InvokePublish(p, ok)

PublishSpec == PublishInit /\ [][PublishNext]_vars

(***************************************************************************)
(* getAccessToken: the cached Sentinel token and its refresh.  Time is     *)
(* counted in minutes.                                                     *)
(***************************************************************************)
\* The safety buffer 5 * 60 * 1000 ms, in minutes.
TokenBufferMinutes == 5

\* The row of sentinel_tokens: none, or a token with its expiry.
TokenRows ==
    {NoTokenRow} \cup
    {[present |-> TRUE, access_token |-> "cached", expires_at |-> e] :
        e \in 0..MaxExpiry}

\* The validity test of getAccessToken without the buffer.
cachedTokenValid_NoBuffer(tokenData, now) ==
    tokenData.present /\ tokenData.expires_at > now

\* tokenData && new Date(tokenData.expires_at) > new Date(Date.now() + 5 min)
cachedTokenValid(tokenData, now) ==
    tokenData.present /\ tokenData.expires_at > now + TokenBufferMinutes

TokenInit ==
    /\ clock = 0
    /\ tokenRow \in TokenRows
    /\ authService \in BOOLEAN
    /\ tokenCall = NotCalled
    /\ IdleExceptToken

\* A minute passes.
Tick ==
    /\ clock < MaxClock
    /\ clock' = clock + 1
    /\ UNCHANGED <<tokenRow, authService, tokenCall, notToken>>

\* getAccessToken up to the validity test: the cached token is returned, or
\* sentinel-auth is invoked.
ReadCachedToken ==
    /\ tokenCall = NotCalled
    /\ tokenCall' =
           IF cachedTokenValid(tokenRow, clock)
           THEN [called |-> TRUE, at |-> clock, settled |-> TRUE,
                 outcome |-> Return(tokenRow.access_token)]
           ELSE [called |-> TRUE, at |-> clock, settled |-> FALSE]
    /\ UNCHANGED <<clock, tokenRow, authService, notToken>>

\* sentinel-auth answers: data.access_token is returned, or fnError makes the
\* call throw.
AuthResponds ==
    /\ tokenCall.called
    /\ ~tokenCall.settled
    /\ tokenCall' =
           [called |-> TRUE, at |-> tokenCall.at, settled |-> TRUE,
            outcome |-> IF authService THEN Return("fresh")
                        ELSE Throw("Failed to authenticate with Sentinel Hub")]
    /\ UNCHANGED <<clock, tokenRow, authService, notToken>>

TokenNext ==
    \/ Tick
    \/ ReadCachedToken
    \/ AuthResponds

TokenSpec == TokenInit /\ [][TokenNext]_vars

(***************************************************************************)
(* processImages and pollTaskStatus of the WebODM service, and the task    *)
(* they watch.  The steps processImages emits are kept with a repeated     *)
(* step written once.                                                      *)
(***************************************************************************)
TASK_STATUS ==
    [QUEUED |-> 10, RUNNING |-> 20, FAILED |-> 30, COMPLETED |-> 40,
     CANCELED |-> 50]

\* A promise that has not settled.
Pending == [pending |-> TRUE]

\* What the last status fetch of pollTaskStatus gave.
NoFetch == [kind |-> "none"]
FetchError == [kind |-> "error"]
FetchedTask(task) == [kind |-> "task", status |-> task.status, progress |-> task.progress]

\* resolve(...) or reject(...): the first call settles the promise.
Settle(p, outcome) ==
    [p EXCEPT !.settleCalls = @ + 1,
              !.outcome = IF @ = Pending THEN outcome ELSE @]

\* checkStatus that resolves with whatever task it fetched.
checkStatus_ResolveAny(p, fetched) ==
    LET q == [p EXCEPT !.requests = @ - 1] IN
    IF fetched.threw THEN Settle([q EXCEPT !.last = FetchError], fetched)
    ELSE Settle([q EXCEPT !.last = FetchedTask(fetched.value)], Return(fetched.value))

\* checkStatus that sets the timer whatever the status is.
checkStatus_AlwaysReschedule(p, fetched) ==
    LET q == [p EXCEPT !.requests = @ - 1] IN
    IF fetched.threw THEN Settle([q EXCEPT !.last = FetchError], fetched)
    ELSE LET task == fetched.value
             r == [q EXCEPT !.last = FetchedTask(task), !.timers = @ + 1,
                            !.rescheduled = TRUE]
         IN IF task.status = TASK_STATUS.COMPLETED THEN Settle(r, Return(task))
            ELSE IF task.status = TASK_STATUS.FAILED
                THEN Settle(r, Throw("Processing failed"))
            ELSE IF task.status = TASK_STATUS.CANCELED
                THEN Settle(r, Throw("Task was canceled"))
            ELSE r

\* checkStatus from the answer of getTaskStatus on: the promise is resolved
\* or rejected, or the timer is set.
checkStatus(p, fetched) ==
    LET q == [p EXCEPT !.requests = @ - 1] IN
    IF fetched.threw THEN Settle([q EXCEPT !.last = FetchError], fetched)
    ELSE LET task == fetched.value
             r == [q EXCEPT !.last = FetchedTask(task)]
         IN IF task.status = TASK_STATUS.COMPLETED THEN Settle(r, Return(task))
            ELSE IF task.status = TASK_STATUS.FAILED
                THEN Settle(r, Throw("Processing failed"))
            ELSE IF task.status = TASK_STATUS.CANCELED
                THEN Settle(r, Throw("Task was canceled"))
            ELSE [r EXCEPT !.timers = @ + 1, !.rescheduled = TRUE]

\* onProgress({ step, ... }) as the caller's log takes it.
Emit(steps, step) ==
    IF Len(steps) > 0 /\ steps[Len(steps)] = step THEN steps
    ELSE Append(steps, step)

WebOdmInit ==
    /\ odmTask = [status |-> TASK_STATUS.QUEUED, progress |-> 0]
    /\ poll = NotCalled
    /\ workflow = NotCalled
    /\ IdleExceptWebOdm

\* processImages is called: step 'project', then getOrCreateFarmProject.
StartProcessImages ==
    /\ workflow = NotCalled
    /\ workflow' = [called |-> TRUE, pc |-> "project", steps |-> <<"project">>,
                    calls |-> <<"getOrCreateFarmProject">>, returned |-> <<>>,
                    failed |-> FALSE, outcome |-> Pending]
    /\ UNCHANGED <<odmTask, poll, notWebOdm>>

\* getOrCreateFarmProject returns or throws; on return step 'upload', then
\* createTask.
ProjectReturns(ok) ==
    /\ workflow.called
    /\ workflow.pc = "project"
    /\ workflow' =
           IF ok
           THEN [workflow EXCEPT !.pc = "upload",
                                 !.steps = Emit(@, "upload"),
                                 !.calls = Append(@, "createTask"),
                                 !.returned = Append(@, "getOrCreateFarmProject")]
           ELSE [workflow EXCEPT !.pc = "done", !.failed = TRUE,
                                 !.outcome = Throw("Failed to get projects")]
    /\ UNCHANGED <<odmTask, poll, notWebOdm>>

\* processImages whose pollTaskStatus is not awaited: 'complete' follows
\* 'processing' at once.
TaskCreated_NoAwait(ok) ==
    /\ workflow.called
    /\ workflow.pc = "upload"
    /\ IF ok
       THEN /\ workflow' = [workflow EXCEPT
                   !.pc = "polling",
                   !.steps = Emit(Emit(@, "processing"), "complete"),
                   !.calls = Append(@, "pollTaskStatus"),
                   !.returned = Append(@, "createTask")]
            /\ poll' = [called |-> TRUE, requests |-> 1, timers |-> 0,
                        settleCalls |-> 0, rescheduled |-> FALSE,
                        last |-> NoFetch, outcome |-> Pending]
       ELSE /\ workflow' = [workflow EXCEPT !.pc = "done", !.failed = TRUE,
                                            !.outcome = Throw("Failed to create task")]
            /\ UNCHANGED poll
    /\ UNCHANGED <<odmTask, notWebOdm>>

\* createTask returns or throws; on return step 'processing', then
\* pollTaskStatus, whose first checkStatus() asks for the status.
TaskCreated(ok) ==
    /\ workflow.called
    /\ workflow.pc = "upload"
    /\ IF ok
       THEN /\ workflow' = [workflow EXCEPT
                   !.pc = "polling",
                   !.steps = Emit(@, "processing"),
                   !.calls = Append(@, "pollTaskStatus"),
                   !.returned = Append(@, "createTask")]
            /\ poll' = [called |-> TRUE, requests |-> 1, timers |-> 0,
                        settleCalls |-> 0, rescheduled |-> FALSE,
                        last |-> NoFetch, outcome |-> Pending]
       ELSE /\ workflow' = [workflow EXCEPT !.pc = "done", !.failed = TRUE,
                                            !.outcome = Throw("Failed to create task")]
            /\ UNCHANGED poll
    /\ UNCHANGED <<odmTask, notWebOdm>>

\* The WebODM server works on the task.
TaskAdvance ==
    /\ poll # NotCalled
    /\ \/ /\ odmTask.status = TASK_STATUS.QUEUED
          /\ odmTask' = [odmTask EXCEPT !.status = TASK_STATUS.RUNNING]
       \/ /\ odmTask.status = TASK_STATUS.RUNNING
          /\ odmTask.progress < MaxProgress
          /\ odmTask' = [odmTask EXCEPT !.progress = @ + 1]
       \/ /\ odmTask.status = TASK_STATUS.RUNNING
          /\ \E s \in {TASK_STATUS.COMPLETED, TASK_STATUS.FAILED} :
                 odmTask' = [odmTask EXCEPT !.status = s]
       \/ /\ odmTask.status \in {TASK_STATUS.QUEUED, TASK_STATUS.RUNNING}
          /\ odmTask' = [odmTask EXCEPT !.status = TASK_STATUS.CANCELED]
    /\ UNCHANGED <<poll, workflow, notWebOdm>>

\* getTaskStatus answers: onProgress is called with the task, then checkStatus
\* decides; a failed fetch goes to the catch.
StatusResponse(ok) ==
    /\ poll # NotCalled
    /\ poll.requests > 0
    /\ poll' = checkStatus(poll, IF ok THEN Return(odmTask)
                                 ELSE Throw("Failed to get task status"))
    /\ workflow' = IF ok THEN [workflow EXCEPT !.steps = Emit(@, "processing")]
                   ELSE workflow
    /\ UNCHANGED <<odmTask, notWebOdm>>

\* The timer set by setTimeout(checkStatus, interval) fires.
TimerFires ==
    /\ poll # NotCalled
    /\ poll.timers > 0
    /\ poll' = [poll EXCEPT !.timers = @ - 1, !.requests = @ + 1]
    /\ UNCHANGED <<odmTask, workflow, notWebOdm>>

\* await pollTaskStatus(...) goes on: step 'complete' and the result, or the
\* rejection passed on.
PollAwaited ==
    /\ workflow.called
    /\ workflow.pc = "polling"
    /\ poll.outcome # Pending
    /\ workflow' =
           IF poll.outcome.threw
           THEN [workflow EXCEPT !.pc = "done", !.failed = TRUE,
                                 !.outcome = poll.outcome]
           ELSE [workflow EXCEPT
                    !.pc = "done",
                    !.steps = Emit(@, "complete"),
                    !.returned = Append(@, "pollTaskStatus"),
                    !.outcome = Return([taskStatus |-> poll.outcome.value.status])]
    /\ UNCHANGED <<odmTask, poll, notWebOdm>>

WebOdmNext ==
    \/ StartProcessImages
    \/ \E ok \in BOOLEAN : ProjectReturns(ok)
    \/ \E ok \in BOOLEAN : TaskCreated(ok)
    \/ TaskAdvance
    \/ \E ok \in BOOLEAN : StatusResponse(ok)
    \/ TimerFires
    \/ PollAwaited

WebOdmSpec == WebOdmInit /\ [][WebOdmNext]_vars

\* The server, the network and the timers all make progress.
WebOdmFairSpec ==
    /\ WebOdmSpec
    /\ WF_vars(TaskAdvance)
    /\ WF_vars(\E ok \in BOOLEAN : StatusResponse(ok))
    /\ WF_vars(TimerFires)

(***************************************************************************)
(* ProtectedRoute: the session of the Supabase client, and the component   *)
(* with its state session, userRole and loading.  A session is written as  *)
(* the id of its user.                                                     *)
(***************************************************************************)
Users == {"farmer-user", "admin-user", "new-user"}

\* profile?.role for the user's row in profiles; new-user has no row yet.
ProfileRole(user) ==
    IF user = "admin-user" THEN "admin"
    ELSE IF user = "farmer-user" THEN "farmer"
    ELSE JsUndefined

\* The allowedRoles the routes of App pass: none, or ["farmer"].
AllowedRolesProps == {JsNullNumber, JsArray(<<"farmer">>)}

\* allowedRoles.includes(role)
Includes(array, role) == \E i \in 1..Len(array.items) : array.items[i] = role

\* What ProtectedRoute returns for its state.
Render(r) ==
    IF r.loading THEN "Spinner"
    ELSE IF r.session = JsNull THEN "Navigate /login"
    ELSE IF ~r.allowedRoles.isNull /\ Truthy(r.userRole)
            /\ ~Includes(r.allowedRoles, r.userRole)
        THEN IF r.userRole = "admin" THEN "Navigate /admin-dashboard"
             ELSE "Navigate /farmer-dashboard"
    ELSE "children"

\* The component is on the page.
Mounted == route.called /\ route.mounted

\* A render that returns <Navigate> leaves the route: the component unmounts
\* and its subscription ends.
Rendered(r) ==
    IF Render(r) \in {"Spinner", "children"} THEN r
    ELSE [r EXCEPT !.mounted = FALSE]

RouteInit ==
    /\ auth = JsNull
    /\ route = NotCalled
    /\ IdleExceptRoute

\* The route is entered: first render, and the effect calls getSession.
Mount(allowedRoles) ==
    /\ route = NotCalled
    /\ route' = [called |-> TRUE, mounted |-> TRUE, allowedRoles |-> allowedRoles,
                 session |-> JsNull, userRole |-> JsNull, loading |-> TRUE,
                 pc |-> "getSession", fetched |-> JsNull]
    /\ UNCHANGED <<auth, notRoute>>

\* getSession answers: setSession; with a session the profile is asked for,
\* without one loading ends.
GetSessionReturns ==
    /\ Mounted
    /\ route.pc = "getSession"
    /\ route' = IF auth # JsNull
                THEN [route EXCEPT !.session = auth, !.fetched = auth,
                                   !.pc = "profile"]
                ELSE Rendered([route EXCEPT !.session = JsNull,
                                            !.loading = FALSE, !.pc = "ready"])
    /\ UNCHANGED <<auth, notRoute>>

\* The profiles query answers with the row or with no data:
\* setUserRole(profile?.role), setLoading(false).
ProfileReturns(ok) ==
    /\ Mounted
    /\ route.pc = "profile"
    /\ route' = Rendered([route EXCEPT
                    !.userRole = IF ok THEN ProfileRole(route.fetched)
                                 ELSE JsUndefined,
                    !.loading = FALSE,
                    !.pc = "ready"])
    /\ UNCHANGED <<auth, notRoute>>

\* Sign-in, sign-out or a change of user; onAuthStateChange tells the
\* component.
AuthStateChange(session) ==
    /\ session # auth
    /\ auth' = session
    /\ route' = IF Mounted
                THEN Rendered([route EXCEPT
                         !.session = session,
                         !.userRole = IF session = JsNull THEN JsNull ELSE @])
                ELSE route
    /\ UNCHANGED notRoute

RouteNext ==
    \/ \E allowedRoles \in AllowedRolesProps : Mount(allowedRoles)
    \/ GetSessionReturns
    \/ \E ok \in BOOLEAN : ProfileReturns(ok)
    \/ \E session \in Users \cup {JsNull} : AuthStateChange(session)

RouteSpec == RouteInit /\ [][RouteNext]_vars

(***************************************************************************)
(* getAvailableDates of the Sentinel service: the features of the catalog  *)
(* search reduced to one entry per date.  Cloud cover is written in        *)
(* hundredths of a percent and a date as its day number.                   *)
(***************************************************************************)
Days == 1..MaxDay

\* properties.datetime of a feature: missing, or a date and a time of day.
Datetimes == {Undefined} \cup {Defined([date |-> d, time |-> "T10:30:00Z"]) : d \in Days}

\* properties["eo:cloud_cover"]: missing, 14.96, 15.04 or 30.
CloudCoverValues == {Undefined, Defined(1496), Defined(1504), Defined(3000)}

Features == [datetime : Datetimes, cloudCover : CloudCoverValues]

FeatureLists == UNION {[1..n -> Features] : n \in 0..MaxScenes}

\* Math.round(cloudCover * 10) / 10
RoundToTenth(h) == ((h + 5) \div 10) * 10

getCloudQuality(cloudCover) ==
    IF cloudCover <= 1500 THEN "excellent"
    ELSE IF cloudCover <= 3000 THEN "good"
    ELSE IF cloudCover <= 5000 THEN "moderate"
    ELSE "poor"

\* The forEach body that keeps the first scene of a date, whatever its cloud
\* cover.
addFeature_KeepFirst(datesMap, feature) ==
    LET cloudCover == IF feature.cloudCover.defined THEN feature.cloudCover.value
                      ELSE 10000
    IN IF ~feature.datetime.defined THEN datesMap
       ELSE LET dateStr == feature.datetime.value.date IN
            IF dateStr \notin DOMAIN datesMap
            THEN (dateStr :> [date |-> dateStr,
                              cloudCover |-> RoundToTenth(cloudCover),
                              quality |-> getCloudQuality(cloudCover)]) @@ datesMap
            ELSE datesMap

\* The forEach body: datesMap after one more feature.
addFeature(datesMap, feature) ==
    LET cloudCover == IF feature.cloudCover.defined THEN feature.cloudCover.value
                      ELSE 10000
    IN IF ~feature.datetime.defined THEN datesMap
       ELSE LET dateStr == feature.datetime.value.date IN
            IF dateStr \notin DOMAIN datesMap
               \/ cloudCover < datesMap[dateStr].cloudCover
            THEN (dateStr :> [date |-> dateStr,
                              cloudCover |-> RoundToTenth(cloudCover),
                              quality |-> getCloudQuality(cloudCover)]) @@ datesMap
            ELSE datesMap

RECURSIVE datesMapOf(_)
datesMapOf(features) ==
    IF features = <<>> THEN <<>>
    ELSE addFeature(datesMapOf(SubSeq(features, 1, Len(features) - 1)),
                    features[Len(features)])

\* sort((a, b) => new Date(b.date) - new Date(a.date)) on distinct dates.
RECURSIVE sortNewestFirst(_)
sortNewestFirst(dates) ==
    IF dates = {} THEN <<>>
    ELSE LET newest == CHOOSE d \in dates : \A e \in dates : e <= d
         IN <<newest>> \o sortNewestFirst(dates \ {newest})

getAvailableDates(features) ==
    LET datesMap == datesMapOf(features)
        order == sortNewestFirst(DOMAIN datesMap)
    IN [i \in 1..Len(order) |-> datesMap[order[i]]]

\* The catalog holds some scenes of the farm.
DatesInit ==
    /\ sceneFeatures \in FeatureLists
    /\ datesOut = NotCalled
    /\ IdleExceptDates

\* getAvailableDates is called; the search answers with the features, or not
\* ok.
CallGetAvailableDates(ok) ==
    /\ datesOut = NotCalled
    /\ datesOut' = [called |-> TRUE] @@
           (IF ok THEN Return(getAvailableDates(sceneFeatures))
            ELSE Throw("Failed to get available dates"))
    /\ UNCHANGED <<sceneFeatures, notDates>>

DatesNext == \E ok \in BOOLEAN : CallGetAvailableDates(ok)

DatesSpec == DatesInit /\ [][DatesNext]_vars

(***************************************************************************)
(* The farm reports page: the reports it loaded, the approval dialog of    *)
(* each ReportItem and the update-milestone-status requests under way.     *)
(***************************************************************************)
Reports == 1..NumReports

\* The statuses the reports query selects.
ReportStatuses ==
    {MILESTONE_STATUSES.LEGACY_COMPLETED, MILESTONE_STATUSES.PENDING_VERIFICATION,
     MILESTONE_STATUSES.VERIFIED, MILESTONE_STATUSES.REJECTED}

\* The admin action panel is rendered and its approve button is enabled.
approveEnabled(userRole, reportStatusValue) ==
    /\ userRole = "admin"
    /\ ~isVerified(reportStatusValue)
    /\ canAdminVerify(reportStatusValue)

ReportsInit ==
    /\ reportsRole \in {"farmer", "admin"}
    /\ reportStatus \in [Reports -> ReportStatuses]
    /\ confirmOpen = [r \in Reports |-> FALSE]
    /\ verifyInFlight = [r \in Reports |-> 0]
    /\ verifyIssued = [r \in Reports |-> {}]
    /\ IdleExceptReports

\* handleApproveClick: the dialog opens.  An open dialog covers the page.
ApproveClick(r) ==
    /\ approveEnabled(reportsRole, reportStatus[r])
    /\ \A q \in Reports : ~confirmOpen[q]
    /\ confirmOpen' = [confirmOpen EXCEPT ![r] = TRUE]
    /\ UNCHANGED <<reportsRole, reportStatus, verifyInFlight, verifyIssued, notReports>>

\* Cancel in the dialog: onClose.
CancelApprove(r) ==
    /\ confirmOpen[r]
    /\ confirmOpen' = [confirmOpen EXCEPT ![r] = FALSE]
    /\ UNCHANGED <<reportsRole, reportStatus, verifyInFlight, verifyIssued, notReports>>

\* Confirm in the dialog: onConfirm invokes update-milestone-status with
\* action 'verify', then onClose.
ConfirmApprove(r) ==
    /\ confirmOpen[r]
    /\ verifyInFlight[r] < MaxRequests
    /\ verifyInFlight' = [verifyInFlight EXCEPT ![r] = @ + 1]
    /\ verifyIssued' = [verifyIssued EXCEPT ![r] = @ \cup {reportStatus[r]}]
    /\ confirmOpen' = [confirmOpen EXCEPT ![r] = FALSE]
    /\ UNCHANGED <<reportsRole, reportStatus, notReports>>

\* The function answers: with newStatus the page maps it into the report of
\* that id; with an error there is a toast only.
VerifyResponds(r, ok) ==
    /\ verifyInFlight[r] > 0
    /\ verifyInFlight' = [verifyInFlight EXCEPT ![r] = @ - 1]
    /\ reportStatus' =
           IF ok THEN [q \in Reports |->
                          IF q = r THEN MILESTONE_STATUSES.VERIFIED
                          ELSE reportStatus[q]]
           ELSE reportStatus
    /\ UNCHANGED <<reportsRole, confirmOpen, verifyIssued, notReports>>

ReportsNext ==
    \/ \E r \in Reports : ApproveClick(r)
    \/ \E r \in Reports : CancelApprove(r)
    \/ \E r \in Reports : ConfirmApprove(r)
    \/ \E r \in Reports, ok \in BOOLEAN : VerifyResponds(r, ok)

ReportsSpec == ReportsInit /\ [][ReportsNext]_vars

(***************************************************************************)
(* getOrCreateFarmProject of the WebODM service, called for farm A from    *)
(* several places at once, and the projects the WebODM server holds.       *)
(***************************************************************************)
\* createProject(token, `Farm: ${farmName}`, `farm:${farmId}`) as the server
\* stores it.
ProjectCallIds == 1..MaxProjectCalls

FarmProject(id, farm) ==
    [id |-> id, name |-> "Farm: " \o farm, description |-> "farm:" \o farm]

\* projects.find(...): the first project of the farm, by description or by
\* name.
findExisting(projects, farm) ==
    LET matches == {i \in 1..Len(projects) :
                       \/ projects[i].description = "farm:" \o farm
                       \/ projects[i].name = "Farm: " \o farm}
    IN IF matches = {} THEN Undefined
       ELSE Defined(projects[CHOOSE i \in matches : \A j \in matches : i <= j])

\* The server holds no project, another farm's project, or already the
\* project of farm A.
ProjectInit ==
    /\ odmProjects \in {<<>>, <<FarmProject(1, "B")>>, <<FarmProject(1, "A")>>}
    /\ projectCalls = [c \in ProjectCallIds |-> [pc |-> "idle", outcome |-> Pending]]
    /\ IdleExceptProject

\* getOrCreateFarmProject is called: await getProjects(token).
StartGetOrCreate(c) ==
    /\ projectCalls[c].pc = "idle"
    /\ projectCalls' = [projectCalls EXCEPT ![c].pc = "getProjects"]
    /\ UNCHANGED <<odmProjects, notProject>>

\* getProjects answers: the existing project is returned, or createProject
\* is called; a failed request throws.
GetProjectsReturns(c, ok) ==
    /\ projectCalls[c].pc = "getProjects"
    /\ LET existing == findExisting(odmProjects, "A") IN
       projectCalls' = [projectCalls EXCEPT ![c] =
           IF ~ok THEN [pc |-> "done", outcome |-> Throw("Failed to get projects")]
           ELSE IF existing.defined
               THEN [pc |-> "done", outcome |-> Return(existing.value)]
           ELSE [pc |-> "createProject", outcome |-> Pending]]
    /\ UNCHANGED <<odmProjects, notProject>>

\* createProject answers: the server has stored the new project and the
\* call returns it; a failed request throws.
CreateProjectReturns(c, ok) ==
    /\ projectCalls[c].pc = "createProject"
    /\ IF ok
       THEN LET created == FarmProject(Len(odmProjects) + 1, "A") IN
            /\ odmProjects' = Append(odmProjects, created)
            /\ projectCalls' = [projectCalls EXCEPT ![c] =
                   [pc |-> "done", outcome |-> Return(created)]]
       ELSE /\ projectCalls' = [projectCalls EXCEPT ![c] =
                   [pc |-> "done", outcome |-> Throw("Failed to create project")]]
            /\ UNCHANGED odmProjects
    /\ UNCHANGED notProject

ProjectNext ==
    \/ \E c \in ProjectCallIds : StartGetOrCreate(c)
    \/ \E c \in ProjectCallIds, ok \in BOOLEAN : GetProjectsReturns(c, ok)
    \/ \E c \in ProjectCallIds, ok \in BOOLEAN : CreateProjectReturns(c, ok)

ProjectSpec == ProjectInit /\ [][ProjectNext]_vars

(***************************************************************************)
(* Properties of the milestone state machine (MilestoneSpec).              *)
(***************************************************************************)
\* C1: verification is irreversible.  Both option lists are empty for a
\* milestone whose normalized status is verified, and no farmer or reviewer
\* step changes the status of such a milestone.
C1_VerifiedIrreversible ==
    /\ [](\A m \in Milestones :
            normalizeStatus(status[m]) = "verified" =>
                /\ getFarmerStatusOptions(status[m]) = <<>>
                /\ getAdminStatusOptions(status[m]) = <<>>)
    /\ [][\A m \in Milestones :
            normalizeStatus(status[m]) = "verified" => status'[m] = status[m]]_vars

\* A milestone is verified and another milestone was moved after it.
C1_Witness ==
    \E m \in Milestones :
        /\ status[m] = "verified"
        /\ lastStep.role \in {"farmer", "admin"}
        /\ lastStep.milestone # m
        /\ \A n \in Milestones \ {m} : status[n] # "verified"

\* C2: a step that makes a milestone verified or rejected is a reviewer
\* step taken from pending_verification; no milestone starts in either.
C2_ReviewOnlyFromPending ==
    /\ \A m \in Milestones : status[m] \notin {"verified", "rejected"}
    /\ [][\A m \in Milestones :
            (status'[m] \in {"verified", "rejected"} /\ status'[m] # status[m]) =>
                /\ lastStep'.role = "admin"
                /\ lastStep'.milestone = m
                /\ normalizeStatus(status[m]) = "pending_verification"]_vars

\* The reviewer has just verified a milestone that was pending verification.
C2_Witness ==
    /\ lastStep.role = "admin"
    /\ lastStep.to = "verified"
    /\ status[lastStep.milestone] = "verified"

\* C5: skipped is terminal.  No farmer or reviewer step changes the status
\* of a milestone whose normalized status is skipped.
C5_SkippedTerminal ==
    [][\A m \in Milestones :
        normalizeStatus(status[m]) = "skipped" => status'[m] = status[m]]_vars

\* The reviewer took the skip option offered for an already skipped milestone.
C5_Witness ==
    /\ lastStep.role = "admin"
    /\ lastStep.from = "skipped"
    /\ lastStep.to = "skipped"

(***************************************************************************)
(* Properties of the status helpers (StatusFnSpec).                        *)
(***************************************************************************)
\* C3: getFarmerStatusOptions returns an empty list for verified, rejected,
\* skipped and pending_verification and for the legacy spelling Completed,
\* and for no input does the list contain verified, rejected or skipped.
C3_FarmerCannotPassSubmission ==
    Called("getFarmerStatusOptions") =>
        LET options == statusCalls["getFarmerStatusOptions"] IN
        /\ statusIn \in {"verified", "rejected", "skipped",
                         "pending_verification", "Completed"} => options = <<>>
        /\ \A i \in DOMAIN options :
               options[i].value \notin {"verified", "rejected", "skipped"}

\* The farmer's options were asked for a legacy Completed row.
C3_Witness ==
    /\ Called("getFarmerStatusOptions")
    /\ statusIn = "Completed"
    /\ statusCalls["getFarmerStatusOptions"] = <<>>

\* C4 as stated: getAdminStatusOptions offers {verified, rejected} exactly
\* from pending_verification, offers skipped from no terminal status
\* (rejected, skipped), and offers nothing from verified.
C4_AdminOptionsAsStated ==
    Called("getAdminStatusOptions") =>
        LET options == statusCalls["getAdminStatusOptions"]
            values == {options[i].value : i \in DOMAIN options} IN
        /\ values = {"verified", "rejected"} <=>
               statusIn \in {"pending_verification", "Completed"}
        /\ "skipped" \in values =>
               statusIn \notin {"verified", "rejected", "skipped"}
        /\ statusIn = "verified" => options = <<>>

\* C4 (amended): getAdminStatusOptions offers {verified, rejected} exactly
\* from pending_verification, offers nothing exactly from verified, and
\* offers {skipped} from every other status: from not_started and
\* in_progress, from unrecognized values, and also from the terminal
\* statuses rejected and skipped.
C4_AdminOptions ==
    Called("getAdminStatusOptions") =>
        LET options == statusCalls["getAdminStatusOptions"]
            values == {options[i].value : i \in DOMAIN options} IN
        /\ values = {"verified", "rejected"} <=>
               statusIn \in {"pending_verification", "Completed"}
        /\ options = <<>> <=> statusIn = "verified"
        /\ statusIn \notin {"pending_verification", "Completed", "verified"} =>
               values = {"skipped"}

\* The reviewer's options were asked for a rejected milestone: skip is offered.
C4_Witness ==
    /\ Called("getAdminStatusOptions")
    /\ statusIn = "rejected"
    /\ Len(statusCalls["getAdminStatusOptions"]) = 1
    /\ statusCalls["getAdminStatusOptions"][1].value = "skipped"

\* C6: normalizeStatus maps the three legacy values to their enum values,
\* empty and null to not_started, returns every other value unchanged, and
\* normalizeStatus(normalizeStatus(s)) = normalizeStatus(s).
C6_NormalizeStatusContract ==
    Called("normalizeStatus") =>
        LET normalized == statusCalls["normalizeStatus"] IN
        /\ statusIn = "Not Started" => normalized = "not_started"
        /\ statusIn = "In Progress" => normalized = "in_progress"
        /\ statusIn = "Completed" => normalized = "pending_verification"
        /\ statusIn \in {"", JsNull, JsUndefined} => normalized = "not_started"
        /\ statusIn \notin {"Not Started", "In Progress", "Completed",
                            "", JsNull, JsUndefined} => normalized = statusIn
        /\ Called("normalizeStatus.normalizeStatus") =>
               statusCalls["normalizeStatus.normalizeStatus"] = normalized

RingsOf(name) ==
    IF name = "formatCoordsToGeoJSON"
    THEN converted[name].value.geometry.coordinates
    ELSE converted[name].value.coordinates

\* C8: given at least 3 points, each points-to-polygon converter returns a
\* single ring whose first coordinate equals its last, whose coordinates are
\* <<lng, lat>> pairs, and which starts with the input points in input order.
C8_RingClosedInOrder ==
    \A name \in DOMAIN converted :
        Len(leafletCoords) >= 3 =>
            /\ ~converted[name].threw
            /\ Len(RingsOf(name)) = 1
            /\ LET ring == RingsOf(name)[1]
                   n == Len(leafletCoords) IN
               /\ Len(ring) \in {n, n + 1}
               /\ ring[1] = ring[Len(ring)]
               /\ \A i \in 1..n :
                      ring[i] = <<leafletCoords[i].lng, leafletCoords[i].lat>>
               /\ \A i \in 1..Len(ring) : ring[i] \in Lngs \X Lats

\* All three converters were applied to an open list of at least 3 points.
C8_Witness ==
    /\ DOMAIN converted =
           {"leafletToGeoJSON", "coordsToGeoJSON", "formatCoordsToGeoJSON"}
    /\ Len(leafletCoords) >= 3
    /\ leafletCoords[1] # leafletCoords[Len(leafletCoords)]

RoundTripCase ==
    /\ geoJsonIn.origin = "leafletToGeoJSON"
    /\ Len(leafletCoords) >= 3
    /\ leafletCoords[1] # leafletCoords[Len(leafletCoords)]

\* C9 as stated: for at least 3 points whose first and last differ,
\* geoJSONToLeaflet(leafletToGeoJSON(points)) equals the input list.
C9_RoundTripAsStated ==
    RoundTripCase => (~leafletOut.threw /\ leafletOut.value = leafletCoords)

\* C9 (amended): for at least 3 points whose first and last differ,
\* geoJSONToLeaflet(leafletToGeoJSON(points)) is the input list, in order,
\* followed by the closing copy of the first point, which is not removed.
C9_RoundTripKeepsClosingPoint ==
    RoundTripCase =>
        /\ ~leafletOut.threw
        /\ leafletOut.value = Append(leafletCoords, leafletCoords[1])

\* The polygon made from an open list of points was converted back.
C9_Witness ==
    /\ RoundTripCase
    /\ Len(leafletOut.value) = Len(leafletCoords) + 1

\* C10: geoJSONToLeaflet never throws; it returns the empty list for null,
\* for an object without coordinates, for an empty coordinates array and for
\* a MultiPolygon without a first ring, and the first ring of the first
\* polygon for a well-formed MultiPolygon.
C10_MalformedGivesEmpty ==
    geoJsonIn.origin # "none" =>
        /\ ~leafletOut.threw
        /\ geoJsonIn.origin \in {"null", "no coordinates", "empty coordinates",
                                 "empty MultiPolygon", "MultiPolygon without ring"}
               => leafletOut.value = <<>>
        /\ geoJsonIn.origin = "MultiPolygon" =>
               LET ring == geoJsonIn.arg.coordinates[1][1] IN
               leafletOut.value =
                   [i \in 1..Len(ring) |-> [lat |-> ring[i][2], lng |-> ring[i][1]]]

\* The bounding box of a non-empty point list: [minLng, minLat, maxLng,
\* maxLat], attained by input points and containing all of them.
BBoxOfPoints ==
    Len(leafletCoords) > 0 =>
        LET box == bboxOut.value
            P == {leafletCoords[i] : i \in 1..Len(leafletCoords)} IN
        /\ ~bboxOut.threw
        /\ Len(box) = 4
        /\ box[1] <= box[3] /\ box[2] <= box[4]
        /\ \A q \in P : box[1] <= q.lng /\ q.lng <= box[3]
                        /\ box[2] <= q.lat /\ q.lat <= box[4]
        /\ \E q \in P : q.lng = box[1]
        /\ \E q \in P : q.lat = box[2]
        /\ \E q \in P : q.lng = box[3]
        /\ \E q \in P : q.lat = box[4]

\* C11: coordsToBBox returns [minLng, minLat, maxLng, maxLat] for a
\* non-empty point list and fails with an error for an empty one.
C11_BBoxAsStated ==
    bboxOut.called =>
        /\ BBoxOfPoints
        /\ Len(leafletCoords) = 0 => bboxOut.threw

(***************************************************************************)
(* Properties of the vegetation indices (VegetationSpec).                  *)
(***************************************************************************)
\* C12: computeVegetationIndices returns null, without throwing, when the
\* sample has 65535 in b3, b5, b7 or b10, so that no index depending on such
\* a band is a number; it also returns null for fewer than 10 bands, and it
\* returns the three indices otherwise.
C12_NoDataGivesNull ==
    IndexCalled("computeVegetationIndices") =>
        LET r == indexCalls["computeVegetationIndices"] IN
        /\ ~r.threw
        /\ IF bandValues.isNull THEN r.value = [isNull |-> TRUE]
           ELSE IF Len(bandValues.items) < 10 THEN r.value = [isNull |-> TRUE]
           ELSE IF \E i \in {3, 5, 7, 10} : bandValues.items[i] = 65535
                THEN r.value = [isNull |-> TRUE]
                ELSE /\ ~r.value.isNull
                     /\ DOMAIN r.value = {"isNull", "ndvi", "ndre", "gndvi"}

\* A ten-band sample whose only no-data band is the red-edge band b7.
C12_Witness ==
    /\ IndexCalled("computeVegetationIndices")
    /\ ~bandValues.isNull
    /\ Len(bandValues.items) = 10
    /\ bandValues.items[7] = 65535
    /\ \A i \in {3, 5, 10} : bandValues.items[i] # 65535
    /\ indexCalls["computeVegetationIndices"].value = [isNull |-> TRUE]

\* A ten-band sample without the no-data value.
CleanSample ==
    /\ ~bandValues.isNull
    /\ Len(bandValues.items) = 10
    /\ \A i \in {3, 5, 7, 10} : bandValues.items[i] # 65535

\* The NDVI of the evalscript is a finite number: the denominator carries
\* the 0.0001 and is positive, and the value is 0 when NIR = Red.
EvalscriptNdviFinite ==
    IndexCalled("evaluatePixel") =>
        LET r == indexCalls["evaluatePixel"] IN
        /\ ~r.threw
        /\ Len(r.value.ndvi) = 1
        /\ ~r.value.ndvi[1].isNull
        /\ r.value.ndvi[1].den > 0
        /\ r.value.ndvi[1].den = pixelSamples.B08 + pixelSamples.B04 + 1
        /\ r.value.ndvi[1].num = pixelSamples.B08 - pixelSamples.B04
        /\ pixelSamples.B08 = pixelSamples.B04 => r.value.ndvi[1].num = 0

\* C13 as stated: every NDVI computation gives a finite number for every sample
\* without the no-data value, nir + red = 0 included.
C13_NdviAlwaysFinite ==
    /\ EvalscriptNdviFinite
    /\ IndexCalled("computeVegetationIndices") /\ CleanSample =>
           LET r == indexCalls["computeVegetationIndices"] IN
           /\ ~r.threw
           /\ ~r.value.ndvi.isNull
           /\ r.value.ndvi.den # 0

\* C13 (amended): the evalscript adds 0.0001 to the denominator, so its NDVI
\* is a finite number for every sample (0 when NIR = Red).
\* computeVegetationIndices adds nothing: for a sample without the no-data
\* value its ndvi is null when b10 + b5 = 0 and (b10 - b5) / (b10 + b5)
\* otherwise; it does not throw.
C13_NdviGuards ==
    /\ EvalscriptNdviFinite
    /\ IndexCalled("computeVegetationIndices") /\ CleanSample =>
           LET r == indexCalls["computeVegetationIndices"] IN
           /\ ~r.threw
           /\ IF bandValues.items[10] + bandValues.items[5] = 0
              THEN r.value.ndvi = [isNull |-> TRUE]
              ELSE /\ ~r.value.ndvi.isNull
                   /\ r.value.ndvi.num = bandValues.items[10] - bandValues.items[5]
                   /\ r.value.ndvi.den = bandValues.items[10] + bandValues.items[5]

\* Both computations have run on NIR = Red = 0.
C13_Witness ==
    /\ IndexCalled("evaluatePixel")
    /\ pixelSamples.B08 = 0 /\ pixelSamples.B04 = 0
    /\ IndexCalled("computeVegetationIndices")
    /\ CleanSample
    /\ bandValues.items[10] = 0 /\ bandValues.items[5] = 0

\* The label the stated ladder gives a value in hundredths.
LadderLabel(h) ==
    IF h < -10 THEN "Water/Shadow"
    ELSE IF h < 10 THEN "Bare Soil"
    ELSE IF h < 20 THEN "Sparse"
    ELSE IF h < 40 THEN "Moderate"
    ELSE IF h < 60 THEN "Healthy"
    ELSE "Very Healthy"

\* C14: the two getNdviHealthStatus functions follow the ladder at -0.1, 0.1,
\* 0.2, 0.4, 0.6, label a missing value No Data, and return the same label
\* for every input.
C14_SameLadder ==
    IndexCalled("titiler.getNdviHealthStatus")
        /\ IndexCalled("sentinel.getNdviHealthStatus") =>
        LET t == indexCalls["titiler.getNdviHealthStatus"].value.label
            s == indexCalls["sentinel.getNdviHealthStatus"].value
            expected == IF ndviIn.isNull THEN "No Data"
                        ELSE LadderLabel(ndviIn.hundredths)
        IN t = s /\ t = expected

(***************************************************************************)
(* Properties of getAllSentinelDataForFarm (SentinelSpec).                 *)
(***************************************************************************)
\* C15: whatever subset of the six requests fails, at the token or at the
\* fetch, getAllSentinelDataForFarm does not reject; data has the six names,
\* data[name] is null exactly for the failed requests, and errors has exactly
\* one entry per failed request, carrying its name.
C15_SettleAll ==
    batch.called =>
        LET names == <<"trueColor", "ndvi", "savi", "moisture", "lai", "scenes">>
            failed == {i \in 1..6 : requests[i].status = "rejected"}
        IN
        /\ ~batch.threw
        /\ DOMAIN batch.value.data = {names[i] : i \in 1..6}
        /\ \A i \in 1..6 :
               (batch.value.data[names[i]] = [isNull |-> TRUE]) <=> (i \in failed)
        /\ Len(batch.value.errors) = Cardinality(failed)
        /\ \A i \in failed :
               Cardinality({k \in 1..Len(batch.value.errors) :
                                batch.value.errors[k].api = names[i]}) = 1
        /\ \A k \in 1..Len(batch.value.errors) :
               \E i \in failed : batch.value.errors[k].api = names[i]

\* An aggregation over a token failure, a fetch failure and a success.
C15_Witness ==
    /\ batch.called
    /\ \E i \in 1..6 :
           /\ requests[i].status = "rejected"
           /\ requests[i].reason.message = "Failed to authenticate with Sentinel Hub"
    /\ \E i \in 1..6 :
           /\ requests[i].status = "rejected"
           /\ requests[i].reason.message # "Failed to authenticate with Sentinel Hub"
    /\ \E i \in 1..6 : requests[i].status = "fulfilled"

(***************************************************************************)
(* Properties of getFarmIoTData (IoTSpec).                                 *)
(***************************************************************************)
\* C16: getFarmIoTData does not reject; its result has one entry per device
\* the query returned, in that order; the entry of a device whose telemetry
\* request failed has telemetry null and error true, every other entry has
\* its device's telemetry; a query that answered with an error gives the
\* empty list.
C16_PerDeviceTelemetry ==
    iotResult.called =>
        /\ ~iotResult.threw
        /\ IF deviceQuery.error \/ deviceQuery.data.isNull
           THEN iotResult.value = <<>>
           ELSE LET rows == deviceQuery.data.items IN
                /\ Len(iotResult.value) = Len(rows)
                /\ \A i \in 1..Len(rows) :
                       LET e == iotResult.value[i] IN
                       /\ e.id = rows[i]
                       /\ IF telemetryReq[i].failed
                          THEN /\ e.telemetry = [isNull |-> TRUE]
                               /\ "error" \in DOMAIN e
                               /\ e.error = TRUE
                          ELSE /\ e.telemetry = [isNull |-> FALSE, of |-> rows[i]]
                               /\ "error" \notin DOMAIN e

\* A result over several devices of which one failed and one did not.
C16_Witness ==
    /\ iotResult.called
    /\ Len(telemetryReq) >= 2
    /\ \E i \in 1..Len(telemetryReq) : telemetryReq[i].failed
    /\ \E i \in 1..Len(telemetryReq) : ~telemetryReq[i].failed

(***************************************************************************)
(* Properties of the remote-call wrappers (ConfigSpec).                    *)
(***************************************************************************)
\* C17: a direct AgroMonitoring wrapper called without the API key, and a
\* TiTiler wrapper called without the base URL, fails with an error and no
\* fetch is made.
C17_FailFast ==
    LET agro == {"registerPolygonWithAgro", "getWeatherForPolygon",
                 "getSoilDataForPolygon", "getNdviHistoryForPolygon",
                 "searchSatelliteImages"}
        titiler == {"getBounds", "getInfo", "getStatistics", "getPointValue",
                    "checkHealth"}
    IN wrapperCall.called
           /\ \/ wrapperCall.name \in agro /\ ~env.apiKey
              \/ wrapperCall.name \in titiler /\ ~env.titilerUrl
       => /\ fetchLog = <<>>
          /\ wrapperCall.settled
          /\ wrapperCall.outcome.threw

(***************************************************************************)
(* Properties of publishSatelliteTelemetry (PublishSpec).                  *)
(***************************************************************************)
\* C18: a call whose dateInfo is absent, or whose cloudCover is not a value
\* <= 15, makes no duplicate check and no thingsboard-publish invocation and
\* returns false.
C18_PublishOnlyIfClear ==
    \A p \in DOMAIN publishCalls :
        LET c == publishCalls[p] IN
        (c.pc # "idle"
            /\ (~c.dateInfo.present
                \/ ~(c.dateInfo.cloudCover.defined
                     /\ c.dateInfo.cloudCover.value <= 15)))
        => /\ c.pc = "done"
           /\ ~c.checked
           /\ c.result = FALSE
           /\ \A i \in 1..Len(invocations) : invocations[i].call # p

\* C19: no capture date reaches the virtual sensor twice, and no call invokes
\* thingsboard-publish for a capture date that is already published.
C19_PublishedAtMostOnce ==
    /\ \A i, j \in 1..Len(sensorTelemetry) :
           i # j => sensorTelemetry[i].capture_date # sensorTelemetry[j].capture_date
    /\ \A i, j \in 1..Len(invocations) :
           (i < j /\ invocations[i].ok)
               => invocations[i].capture_date # invocations[j].capture_date

(***************************************************************************)
(* Properties of getAccessToken (TokenSpec).                               *)
(***************************************************************************)
\* C20: getAccessToken returns the cached token only when its expires_at is
\* later than the time of the call plus 5 minutes; otherwise (no row, expired
\* or expiring within 5 minutes) it asks sentinel-auth and returns the fresh
\* token, or throws when sentinel-auth fails.
C20_CachedOnlyWithBuffer ==
    tokenCall.called =>
        IF tokenRow.present /\ tokenRow.expires_at > tokenCall.at + 5
        THEN /\ tokenCall.settled
             /\ tokenCall.outcome = [threw |-> FALSE, value |-> "cached"]
        ELSE tokenCall.settled =>
                 IF authService
                 THEN tokenCall.outcome = [threw |-> FALSE, value |-> "fresh"]
                 ELSE tokenCall.outcome.threw

\* A call that found a token expiring exactly 5 minutes later and refreshed.
C20_Witness ==
    /\ tokenCall.called
    /\ tokenCall.settled
    /\ tokenRow.present
    /\ tokenRow.expires_at = tokenCall.at + 5
    /\ tokenCall.outcome = [threw |-> FALSE, value |-> "fresh"]

C26_PollTerminates ==
    /\ [](poll.called =>
            /\ poll.requests + poll.timers <= 1
            /\ poll.outcome # [pending |-> TRUE] =>
                   poll.requests = 0 /\ poll.timers = 0)
    /\ (poll.called ~> (poll.called /\ poll.outcome # [pending |-> TRUE]))

\* A poll that settled on a failed task after at least one more check.
C26_Witness ==
    /\ poll.called
    /\ poll.rescheduled
    /\ poll.outcome # [pending |-> TRUE]
    /\ poll.last.kind = "task"
    /\ poll.last.status = 30
    /\ poll.requests = 0 /\ poll.timers = 0

\* C27: processImages emits its steps in the order project, upload,
\* processing, complete; createTask is called only after
\* getOrCreateFarmProject returned and pollTaskStatus only after createTask
\* returned; 'complete' and the result come only after the poll resolved with
\* a COMPLETED task; when a step fails processImages rejects and 'complete'
\* is not emitted.
C27_WorkflowInOrder ==
    workflow.called =>
        LET order == <<"project", "upload", "processing", "complete">>
            subcalls == <<"getOrCreateFarmProject", "createTask", "pollTaskStatus">>
            emitted == workflow.steps
        IN
        /\ Len(emitted) >= 1 /\ Len(emitted) <= 4
        /\ \A i \in 1..Len(emitted) : emitted[i] = order[i]
        /\ Len(workflow.calls) <= 3
        /\ \A i \in 1..Len(workflow.calls) :
               /\ workflow.calls[i] = subcalls[i]
               /\ i > 1 => (Len(workflow.returned) >= i - 1
                            /\ workflow.returned[i - 1] = subcalls[i - 1])
        /\ (poll.called <=> Len(workflow.calls) = 3)
        /\ (Len(emitted) = 4 \/ (workflow.outcome # [pending |-> TRUE]
                                 /\ ~workflow.outcome.threw)) =>
               /\ poll.called
               /\ poll.outcome # [pending |-> TRUE]
               /\ ~poll.outcome.threw
               /\ poll.outcome.value.status = 40
        /\ workflow.failed =>
               /\ workflow.outcome # [pending |-> TRUE]
               /\ workflow.outcome.threw
               /\ Len(emitted) < 4
        /\ (poll.called /\ poll.outcome # [pending |-> TRUE]
                /\ poll.outcome.threw /\ workflow.pc = "done") => workflow.failed

\* processImages returned its result after several status checks.
C27_Witness ==
    /\ workflow.called
    /\ workflow.steps = <<"project", "upload", "processing", "complete">>
    /\ workflow.outcome # [pending |-> TRUE]
    /\ ~workflow.outcome.threw
    /\ poll.rescheduled

(***************************************************************************)
(* Properties of ProtectedRoute (RouteSpec).                               *)
(***************************************************************************)
\* C22: ProtectedRoute renders its children only when it holds a session
\* and, if allowedRoles is given, the role of the signed-in user is one of
\* allowedRoles.
C22_ChildrenOnlyForAllowed ==
    (route.called /\ route.mounted /\ Render(route) = "children") =>
        /\ route.session # "<null>"
        /\ ~route.allowedRoles.isNull =>
               \E i \in 1..Len(route.allowedRoles.items) :
                   /\ route.allowedRoles.items[i] = "farmer"
                   /\ route.session = "farmer-user"

(***************************************************************************)
(* The direction of the farmer's steps (MilestoneSpec).                    *)
(***************************************************************************)
\* C23: every step a farmer takes leads to a later status of the chain
\* not_started -> in_progress -> pending_verification than the one the
\* milestone had, so no farmer step moves a milestone back or leaves it where
\* it was.
C23_FarmerOnlyForward ==
    lastStep.role = "farmer" =>
        \/ /\ lastStep.from \in {"not_started", "Not Started"}
           /\ lastStep.to \in {"in_progress", "pending_verification"}
        \/ /\ lastStep.from \in {"in_progress", "In Progress"}
           /\ lastStep.to = "pending_verification"

(***************************************************************************)
(* Properties of getAvailableDates (DatesSpec).                            *)
(***************************************************************************)
\* The scenes of a date, and the cloud cover of one, a missing value counted
\* as 100.
ScenesOfDate(d) ==
    {i \in 1..Len(sceneFeatures) :
        /\ sceneFeatures[i].datetime.defined
        /\ sceneFeatures[i].datetime.value.date = d}

SceneCloudCover(i) ==
    IF sceneFeatures[i].cloudCover.defined THEN sceneFeatures[i].cloudCover.value
    ELSE 10000

\* C24: every entry getAvailableDates returns has the quality that the
\* thresholds excellent <= 15, good <= 30, moderate <= 50, poor otherwise
\* give for the cloudCover of that same entry.
C24_QualityMatchesCloudCover ==
    (datesOut.called /\ ~datesOut.threw) =>
        \A i \in 1..Len(datesOut.value) :
            LET entry == datesOut.value[i] IN
            entry.quality =
                IF entry.cloudCover <= 1500 THEN "excellent"
                ELSE IF entry.cloudCover <= 3000 THEN "good"
                ELSE IF entry.cloudCover <= 5000 THEN "moderate"
                ELSE "poor"

\* One entry per date of a dated scene and no other, newest date first.
DatesDistinctNewestFirst ==
    /\ \A i, j \in 1..Len(datesOut.value) :
           i < j => datesOut.value[i].date > datesOut.value[j].date
    /\ {datesOut.value[i].date : i \in 1..Len(datesOut.value)} =
           {sceneFeatures[i].datetime.value.date :
               i \in {k \in 1..Len(sceneFeatures) : sceneFeatures[k].datetime.defined}}

\* C25 as stated: at most one entry per date, carrying the lowest cloud cover
\* among the scenes of that date, newest date first.
C25_LowestCloudCover ==
    (datesOut.called /\ ~datesOut.threw) =>
        /\ DatesDistinctNewestFirst
        /\ \A i \in 1..Len(datesOut.value) :
               LET entry == datesOut.value[i] IN
               /\ \E k \in ScenesOfDate(entry.date) :
                      entry.cloudCover = SceneCloudCover(k)
               /\ \A k \in ScenesOfDate(entry.date) :
                      entry.cloudCover <= SceneCloudCover(k)

\* C25: at most one entry per date, carrying the lowest cloud cover among the
\* scenes of that date rounded to one decimal, newest date first.
C25_LowestCloudCoverRounded ==
    (datesOut.called /\ ~datesOut.threw) =>
        /\ DatesDistinctNewestFirst
        /\ \A i \in 1..Len(datesOut.value) :
               LET entry == datesOut.value[i] IN
               \E k \in ScenesOfDate(entry.date) :
                   /\ \A l \in ScenesOfDate(entry.date) :
                          SceneCloudCover(k) <= SceneCloudCover(l)
                   /\ entry.cloudCover = ((SceneCloudCover(k) + 5) \div 10) * 10

\* Two dates came back, the older one with two scenes: the first without a
\* cloud cover value, the second with less cloud.
C25_Witness ==
    /\ datesOut.called
    /\ ~datesOut.threw
    /\ Len(datesOut.value) = 2
    /\ \E i, j \in ScenesOfDate(datesOut.value[2].date) :
           /\ i < j
           /\ SceneCloudCover(i) > SceneCloudCover(j)
           /\ ~sceneFeatures[i].cloudCover.defined

(***************************************************************************)
(* Properties of the farm reports page (ReportsSpec).                      *)
(***************************************************************************)
\* C28: a 'verify' request for a report is issued only while the report's
\* normalized status is pending_verification ('Completed' is its legacy
\* spelling).
C28_VerifyOnlyWhilePending ==
    \A r \in DOMAIN verifyIssued :
        verifyIssued[r] \subseteq {"pending_verification", "Completed"}

\* C29: at most one 'verify' request of a report is in flight at any time.
C29_OneVerifyInFlight ==
    \A r \in DOMAIN verifyInFlight : verifyInFlight[r] <= 1

(***************************************************************************)
(* Properties of getOrCreateFarmProject (ProjectSpec).                     *)
(***************************************************************************)
\* C30: whatever the interleaving of the calls for farm A, the server holds
\* at most one project of farm A, and all calls that returned gave the same
\* project.
C30_OneProjectPerFarm ==
    /\ \A i, j \in 1..Len(odmProjects) :
           (odmProjects[i].description = "farm:A"
                /\ odmProjects[j].description = "farm:A") => i = j
    /\ \A c, d \in DOMAIN projectCalls :
           (/\ projectCalls[c].outcome # [pending |-> TRUE]
            /\ projectCalls[d].outcome # [pending |-> TRUE]
            /\ ~projectCalls[c].outcome.threw
            /\ ~projectCalls[d].outcome.threw) =>
               projectCalls[c].outcome.value = projectCalls[d].outcome.value

====
